---- MODULE Spec2Model ----
(***************************************************************************)
(* Auto DMS backend (src/main.py, src/schemas.py): the request handlers    *)
(* over the document database, as a state machine.                         *)
(*                                                                         *)
(* A collection is the sequence of its documents in insertion order; the   *)
(* identifier of a document is its position in its collection.  A          *)
(* well-formed identifier that resolves to nothing is a number beyond the  *)
(* collection's length; BadId is an identifier that ObjectId() rejects;    *)
(* NoneId is Python's None where an identifier is optional.                *)
(* Identifiers are taken in the form the API returns them (one spelling    *)
(* per document).                                                          *)
(*                                                                         *)
(* Text is a sequence of one-character strings, so that substring and      *)
(* case-insensitive matching are computed and not assumed.                 *)
(***************************************************************************)
EXTENDS Integers, Sequences, FiniteSets, TLC

VARIABLES
    vehicle,            \* db.vehicle
    customer,           \* db.customer
    technician,         \* db.technician
    part,               \* db.part
    jobcard,            \* db.jobcard
    partsrequest,       \* db.partsrequest
    invoice,            \* db.invoice
    quotation,          \* db.quotation
    inventorymovement,  \* db.inventorymovement
    response,           \* the HTTP response of the last request that completed
    proc                \* concurrent request handlers: position and locals

vars == <<vehicle, customer, technician, part, jobcard, partsrequest, invoice,
          quotation, inventorymovement, response, proc>>

db == <<vehicle, customer, technician, part, jobcard, partsrequest, invoice,
        quotation, inventorymovement>>

(***************************************************************************)
(* Bounds of the model.                                                    *)
(***************************************************************************)
MaxVehicles == 2
MaxCustomers == 1
MaxTechnicians == 2
MaxJobCards == 2
SeededCapacity == 1
MaxParts == 2
MaxPartsRequests == 1
MaxInvoices == 1
MaxShortfall == 1
MaxDocuments == 2
MaxMovements == 3
NumWorkers == 2

(***************************************************************************)
(* Program constants.                                                      *)
(***************************************************************************)
DefaultCapacity == 3
MinVinLength == 5
SearchLimit == 100
ListLimit == 200
DefaultVatRate == 15
BadId == 0
NoneId == -1

OK == 200
InvalidInput == 400
NotFound == 404
Conflict == 409
ServerError == 500

OpenLike == {"open", "in_progress", "waiting_parts"}
JobCardStatus == {"open", "in_progress", "waiting_parts", "ready", "invoiced", "closed"}
VehicleStatus == {"in_stock", "reserved", "sold", "in_service"}
PartsRequestStatus == {"requested", "approved", "supplied", "rejected"}

(***************************************************************************)
(* Utilities.                                                              *)
(***************************************************************************)
\* oid(id_str): ObjectId(id_str) raises for anything but 24 hex characters.
oid_ok(id) == id # BadId /\ id # NoneId

\* find_one({"_id": oid(id)}) on a collection: is there such a document.
Exists(coll, id) == id \in 1..Len(coll)

\* create_document(collection, record): insert, the new identifier is returned.
create_document(coll, doc) == Append(coll, doc)

\* update_one({"_id": id}, {"$set": {field: value}}); no match, no change.
SetField(coll, id, field, value) ==
    [i \in 1..Len(coll) |-> IF i = id THEN [coll[i] EXCEPT ![field] = value] ELSE coll[i]]

\* update_one({"_id": id}, {"$inc": {field: delta}}); no match, no change.
IncField(coll, id, field, delta) ==
    [i \in 1..Len(coll) |-> IF i = id THEN [coll[i] EXCEPT ![field] = @ + delta] ELSE coll[i]]

\* cursor.limit(n)
Limit(s, n) == IF Len(s) <= n THEN s ELSE SubSeq(s, 1, n)

Resp(op, code, detail) == [op |-> op, code |-> code, detail |-> detail, result |-> <<>>]

Range(s) == {s[i] : i \in 1..Len(s)}

(***************************************************************************)
(* Text.                                                                   *)
(***************************************************************************)
LowerChar(c) ==
    CASE c = "A" -> "a"
      [] c = "B" -> "b"
      [] c = "C" -> "c"
      [] c = "D" -> "d"
      [] c = "E" -> "e"
      [] OTHER -> c

Lower(s) == [i \in 1..Len(s) |-> LowerChar(s[i])]

\* {"$regex": q, "$options": "i"} for a q of letters and digits: q occurs in
\* the field, case ignored.  A field that is None matches nothing.
NoneText == <<"<None>">>

RegexMatchI(text, q) ==
    /\ text # NoneText
    /\ \E i \in 1..(Len(text) - Len(q) + 1) :
          SubSeq(Lower(text), i, i + Len(q) - 1) = Lower(q)

\* The cursor of a find: the ids of the documents of a collection that satisfy
\* the filter (matching), in the order of the collection, from document i on.
RECURSIVE FindIds(_, _, _)
FindIds(coll, matching, i) ==
    IF i > Len(coll) THEN <<>>
    ELSE (IF i \in matching THEN <<i>> ELSE <<>>) \o FindIds(coll, matching, i + 1)

\* The handlers that the server runs at the same time: where each one is in
\* its code (pc), the request it serves (arg) and its loop index (i).
Workers == 1..NumWorkers

Idle == [pc |-> "idle", arg |-> <<>>, i |-> 0]

(***************************************************************************)
(* Initial state: the database as first connected.  Nothing is stored but  *)
(* one technician document that carries the optional "capacity"           *)
(* attribute: the handlers read it (tech.get("capacity", 3)) and no        *)
(* handler writes it, so it is there only when the collection was seeded.  *)
(***************************************************************************)
Init ==
    /\ vehicle = <<>>
    /\ customer = <<>>
    /\ technician = <<[name |-> "T1", capacity |-> SeededCapacity]>>
    /\ part = <<>>
    /\ jobcard = <<>>
    /\ partsrequest = <<>>
    /\ invoice = <<>>
    /\ quotation = <<>>
    /\ inventorymovement = <<>>
    /\ response = Resp("none", OK, "")
    /\ proc = [p \in Workers |-> Idle]

(***************************************************************************)
(* Master data.                                                            *)
(***************************************************************************)
create_customer(c) ==
    /\ customer' = create_document(customer, c)
    /\ response' = Resp("create_customer", OK, "id")
    /\ UNCHANGED <<vehicle, technician, part, jobcard, partsrequest, invoice, quotation,
                   inventorymovement, proc>>

\* Technician (schemas.py) has no capacity field: a created technician has none.
create_technician(t) ==
    /\ technician' = create_document(technician, [name |-> t.name])
    /\ response' = Resp("create_technician", OK, "id")
    /\ UNCHANGED <<vehicle, customer, part, jobcard, partsrequest, invoice, quotation,
                   inventorymovement, proc>>

(***************************************************************************)
(* Vehicles.                                                               *)
(***************************************************************************)
\* A lookup that ignores case.
VinRegistered_IgnoreCase(vin) == \E i \in 1..Len(vehicle) : Lower(vehicle[i].vin) = Lower(vin)

\* db.vehicle.find_one({"vin": vin}): exact, case-sensitive.
VinRegistered(vin) == \E i \in 1..Len(vehicle) : vehicle[i].vin = vin

\* Vehicle(...): vin has min_length 5, status defaults to in_stock.
VehicleValid(v) == Len(v.vin) >= MinVinLength

VehicleDoc(v) ==
    [vin |-> v.vin, make |-> v.make, model |-> v.model, color |-> v.color,
     location |-> v.location, status |-> "in_stock"]

register_vehicle(v) ==
    /\ UNCHANGED <<customer, technician, part, jobcard, partsrequest, invoice, quotation,
                   inventorymovement, proc>>
    /\ IF VinRegistered(v.vin)
       THEN /\ response' = Resp("register_vehicle", Conflict, "VIN already registered")
            /\ UNCHANGED vehicle
       ELSE IF ~VehicleValid(v)
       THEN /\ response' = Resp("register_vehicle", ServerError, "validation")
            /\ UNCHANGED vehicle
       ELSE /\ vehicle' = create_document(vehicle, VehicleDoc(v))
            /\ response' = Resp("register_vehicle", OK, "id")

\* if q: a q that is None or empty selects every vehicle.
Truthy(text) == text # NoneText /\ text # <<>>

\* None where a string that the model keeps whole (a status, a method, a
\* reference, a note) is optional, and the truth value of such a string.
NoneStr == "<None>"

TruthyStr(s) == s # NoneStr /\ s # ""

VehicleFilter(q, d) ==
    \/ ~Truthy(q)
    \/ RegexMatchI(d.vin, q)
    \/ RegexMatchI(d.make, q)
    \/ RegexMatchI(d.model, q)
    \/ RegexMatchI(d.color, q)

\* The response lists the documents found, each under its id: the ids, in order.
search_vehicles(q) ==
    /\ response' = [Resp("search_vehicles", OK, "list") EXCEPT
                      !.result = Limit(FindIds(vehicle, {i \in 1..Len(vehicle) : VehicleFilter(q, vehicle[i])}, 1),
                                       SearchLimit)]
    /\ UNCHANGED <<vehicle, customer, technician, part, jobcard, partsrequest, invoice, quotation,
                   inventorymovement, proc>>

(***************************************************************************)
(* Parts.                                                                  *)
(***************************************************************************)
\* A lookup that ignores case.
SkuExists_IgnoreCase(sku) == \E i \in 1..Len(part) : Lower(part[i].sku) = Lower(sku)

\* db.part.find_one({"sku": sku}): exact, case-sensitive.
SkuExists(sku) == \E i \in 1..Len(part) : part[i].sku = sku

\* if sku: filt = {"sku": sku}  elif q: filt = {"$or": [...]}  else {}
PartFilter(q, sku, d) ==
    IF Truthy(sku) THEN d.sku = sku
    ELSE IF Truthy(q) THEN RegexMatchI(d.sku, q) \/ RegexMatchI(d.name, q)
    ELSE TRUE

search_parts(q, sku) ==
    /\ response' = [Resp("search_parts", OK, "list") EXCEPT
                      !.result = Limit(FindIds(part, {i \in 1..Len(part) : PartFilter(q, sku, part[i])}, 1),
                                       SearchLimit)]
    /\ UNCHANGED <<vehicle, customer, technician, part, jobcard, partsrequest, invoice, quotation,
                   inventorymovement, proc>>

create_part(p) ==
    /\ UNCHANGED <<vehicle, customer, technician, jobcard, partsrequest, invoice, quotation,
                   inventorymovement, proc>>
    /\ IF SkuExists(p.sku)
       THEN /\ response' = Resp("create_part", Conflict, "SKU already exists")
            /\ UNCHANGED part
       ELSE /\ part' = create_document(part, p)
            /\ response' = Resp("create_part", OK, "id")

(***************************************************************************)
(* Service: job cards.                                                     *)
(***************************************************************************)
\* int(tech.get("capacity", 3))
capacity(tech) == IF "capacity" \in DOMAIN tech THEN tech.capacity ELSE DefaultCapacity

\* A count that does not leave out the job card being reassigned.
RECURSIVE open_jobs_NoExclusion(_, _, _, _)
open_jobs_NoExclusion(cards, tech_id, excluded, i) ==
    IF i > Len(cards) THEN 0
    ELSE (IF /\ cards[i].status \in OpenLike
             /\ tech_id \in Range(cards[i].technician_ids)
          THEN 1 ELSE 0) + open_jobs_NoExclusion(cards, tech_id, excluded, i + 1)

\* db.jobcard.count_documents({"_id": {"$ne": excluded}, "status": {"$in": [...]},
\*                             "technician_ids": {"$in": [tech_id]}})
\* create_jobcard has no "_id" clause: excluded = NoneId there.
RECURSIVE open_jobs(_, _, _, _)
open_jobs(cards, tech_id, excluded, i) ==
    IF i > Len(cards) THEN 0
    ELSE (IF /\ i # excluded
             /\ cards[i].status \in OpenLike
             /\ tech_id \in Range(cards[i].technician_ids)
          THEN 1 ELSE 0) + open_jobs(cards, tech_id, excluded, i + 1)

\* A capacity test that lets a technician at capacity take one more job card.
AtCapacity_OffByOne(n, cap) == n > cap

\* if open_jobs >= cap: raise 409
AtCapacity(n, cap) == n >= cap

Pass == Resp("check", OK, "")

\* The loop "for tech_id in technician_ids" of create_jobcard (job_id = NoneId,
\* no exclusion) and of assign_technicians: the first failure, or Pass.
RECURSIVE capacity_checks(_, _, _, _, _)
capacity_checks(op, cards, tech_ids, job_id, i) ==
    IF i > Len(tech_ids) THEN Pass
    ELSE LET tech_id == tech_ids[i] IN
         IF ~oid_ok(tech_id) THEN Resp(op, InvalidInput, "Invalid ID format")
         ELSE IF ~Exists(technician, tech_id)
         THEN Resp(op, NotFound, "Technician not found")
         ELSE IF job_id # NoneId /\ ~oid_ok(job_id)
         THEN Resp(op, InvalidInput, "Invalid ID format")
         ELSE IF AtCapacity(open_jobs(cards, tech_id, job_id, 1),
                            capacity(technician[tech_id]))
         THEN Resp(op, Conflict, technician[tech_id].name)
         ELSE capacity_checks(op, cards, tech_ids, job_id, i + 1)

\* The stored job card: the JobCard model as posted (its status is the posted
\* one, "open" when omitted).  primary_technician_id is no field of the model:
\* it is absent (NoneId) until assign_technicians sets it.
JobCardDoc(j) ==
    [vehicle_id |-> j.vehicle_id, customer_id |-> j.customer_id,
     technician_ids |-> j.technician_ids, status |-> j.status,
     labor |-> j.labor, parts |-> j.parts, materials |-> j.materials,
     outside |-> j.outside, vat_rate |-> j.vat_rate,
     primary_technician_id |-> NoneId]

\* A handler that takes into service only a vehicle that is in stock.
create_jobcard_MarksInStockOnly(j) ==
    /\ UNCHANGED <<customer, technician, part, partsrequest, invoice, quotation,
                   inventorymovement, proc>>
    /\ IF ~oid_ok(j.vehicle_id)
       THEN /\ response' = Resp("create_jobcard", InvalidInput, "Invalid ID format")
            /\ UNCHANGED <<vehicle, jobcard>>
       ELSE IF ~Exists(vehicle, j.vehicle_id)
       THEN /\ response' = Resp("create_jobcard", NotFound, "Vehicle not found")
            /\ UNCHANGED <<vehicle, jobcard>>
       ELSE IF ~oid_ok(j.customer_id)
       THEN /\ response' = Resp("create_jobcard", InvalidInput, "Invalid ID format")
            /\ UNCHANGED <<vehicle, jobcard>>
       ELSE IF ~Exists(customer, j.customer_id)
       THEN /\ response' = Resp("create_jobcard", NotFound, "Customer not found")
            /\ UNCHANGED <<vehicle, jobcard>>
       ELSE LET chk == capacity_checks("create_jobcard", jobcard, j.technician_ids, NoneId, 1) IN
            IF chk # Pass
            THEN /\ response' = chk
                 /\ UNCHANGED <<vehicle, jobcard>>
            ELSE /\ jobcard' = create_document(jobcard, JobCardDoc(j))
                 /\ vehicle' = IF vehicle[j.vehicle_id].status = "in_stock"
                               THEN SetField(vehicle, j.vehicle_id, "status", "in_service")
                               ELSE vehicle
                 /\ response' = Resp("create_jobcard", OK, "id")

create_jobcard(j) ==
    /\ UNCHANGED <<customer, technician, part, partsrequest, invoice, quotation,
                   inventorymovement, proc>>
    /\ IF ~oid_ok(j.vehicle_id)
       THEN /\ response' = Resp("create_jobcard", InvalidInput, "Invalid ID format")
            /\ UNCHANGED <<vehicle, jobcard>>
       ELSE IF ~Exists(vehicle, j.vehicle_id)
       THEN /\ response' = Resp("create_jobcard", NotFound, "Vehicle not found")
            /\ UNCHANGED <<vehicle, jobcard>>
       ELSE IF ~oid_ok(j.customer_id)
       THEN /\ response' = Resp("create_jobcard", InvalidInput, "Invalid ID format")
            /\ UNCHANGED <<vehicle, jobcard>>
       ELSE IF ~Exists(customer, j.customer_id)
       THEN /\ response' = Resp("create_jobcard", NotFound, "Customer not found")
            /\ UNCHANGED <<vehicle, jobcard>>
       ELSE LET chk == capacity_checks("create_jobcard", jobcard, j.technician_ids, NoneId, 1) IN
            IF chk # Pass
            THEN /\ response' = chk
                 /\ UNCHANGED <<vehicle, jobcard>>
            ELSE /\ jobcard' = create_document(jobcard, JobCardDoc(j))
                 /\ vehicle' = SetField(vehicle, j.vehicle_id, "status", "in_service")
                 /\ response' = Resp("create_jobcard", OK, "id")

set_jobcard_status(job_id, status) ==
    /\ UNCHANGED <<vehicle, customer, technician, part, partsrequest, invoice, quotation,
                   inventorymovement, proc>>
    /\ IF ~oid_ok(job_id)
       THEN /\ response' = Resp("set_jobcard_status", InvalidInput, "Invalid ID format")
            /\ UNCHANGED jobcard
       ELSE IF ~Exists(jobcard, job_id)
       THEN /\ response' = Resp("set_jobcard_status", NotFound, "Job card not found")
            /\ UNCHANGED jobcard
       ELSE /\ jobcard' = SetField(jobcard, job_id, "status", status)
            /\ response' = Resp("set_jobcard_status", OK, "success")

\* update = {"technician_ids": ...}; primary_technician_id only when truthy.
AssignUpdate(card, body) ==
    IF body.primary_technician_id # NoneId
    THEN [card EXCEPT !.technician_ids = body.technician_ids,
                      !.primary_technician_id = body.primary_technician_id]
    ELSE [card EXCEPT !.technician_ids = body.technician_ids]

assign_technicians(job_id, body) ==
    /\ UNCHANGED <<vehicle, customer, technician, part, partsrequest, invoice, quotation,
                   inventorymovement, proc>>
    /\ LET chk == capacity_checks("assign_technicians", jobcard, body.technician_ids, job_id, 1) IN
       IF chk # Pass
       THEN /\ response' = chk
            /\ UNCHANGED jobcard
       ELSE IF ~oid_ok(job_id)
       THEN /\ response' = Resp("assign_technicians", InvalidInput, "Invalid ID format")
            /\ UNCHANGED jobcard
       ELSE IF ~Exists(jobcard, job_id)
       THEN /\ response' = Resp("assign_technicians", NotFound, "Job card not found")
            /\ UNCHANGED jobcard
       ELSE /\ jobcard' = [i \in 1..Len(jobcard) |->
                             IF i = job_id THEN AssignUpdate(jobcard[i], body) ELSE jobcard[i]]
            /\ response' = Resp("assign_technicians", OK, "success")

(***************************************************************************)
(* Service: parts requests.                                                *)
(***************************************************************************)
\* A handler that stores the request and leaves the job card as it was.
create_parts_request_KeepsStatus(req) ==
    /\ UNCHANGED <<vehicle, customer, technician, part, invoice, quotation, inventorymovement, proc>>
    /\ IF ~oid_ok(req.job_card_id)
       THEN /\ response' = Resp("create_parts_request", InvalidInput, "Invalid ID format")
            /\ UNCHANGED <<jobcard, partsrequest>>
       ELSE IF ~Exists(jobcard, req.job_card_id)
       THEN /\ response' = Resp("create_parts_request", NotFound, "Job card not found")
            /\ UNCHANGED <<jobcard, partsrequest>>
       ELSE /\ partsrequest' = create_document(partsrequest, req)
            /\ UNCHANGED jobcard
            /\ response' = Resp("create_parts_request", OK, "id")

create_parts_request(req) ==
    /\ UNCHANGED <<vehicle, customer, technician, part, invoice, quotation, inventorymovement, proc>>
    /\ IF ~oid_ok(req.job_card_id)
       THEN /\ response' = Resp("create_parts_request", InvalidInput, "Invalid ID format")
            /\ UNCHANGED <<jobcard, partsrequest>>
       ELSE IF ~Exists(jobcard, req.job_card_id)
       THEN /\ response' = Resp("create_parts_request", NotFound, "Job card not found")
            /\ UNCHANGED <<jobcard, partsrequest>>
       ELSE /\ partsrequest' = create_document(partsrequest, req)
            /\ jobcard' = SetField(jobcard, req.job_card_id, "status", "waiting_parts")
            /\ response' = Resp("create_parts_request", OK, "id")

\* for item in pr["items"]: db.part.update_one({"_id": oid(item["part_id"])},
\*                              {"$inc": {"stock": -int(item["quantity"])}})
\* oid() raises on a malformed part_id: the loop and the handler stop there.
\* The result: the part collection reached, and whether the loop completed.
RECURSIVE deduct_inventory(_, _, _)
deduct_inventory(parts, items, i) ==
    IF i > Len(items) THEN [part |-> parts, done |-> TRUE]
    ELSE IF ~oid_ok(items[i].part_id) THEN [part |-> parts, done |-> FALSE]
    ELSE deduct_inventory(IncField(parts, items[i].part_id, "stock", -items[i].quantity),
                          items, i + 1)

update_parts_request(req_id, status) ==
    /\ UNCHANGED <<vehicle, customer, technician, invoice, quotation, inventorymovement, proc>>
    /\ IF ~oid_ok(req_id)
       THEN /\ response' = Resp("update_parts_request", InvalidInput, "Invalid ID format")
            /\ UNCHANGED <<part, jobcard, partsrequest>>
       ELSE IF ~Exists(partsrequest, req_id)
       THEN /\ response' = Resp("update_parts_request", NotFound, "Parts request not found")
            /\ UNCHANGED <<part, jobcard, partsrequest>>
       ELSE LET pr == partsrequest[req_id] IN
            /\ partsrequest' = SetField(partsrequest, req_id, "status", status)
            /\ IF status = "supplied"
               THEN LET d == deduct_inventory(part, pr.items, 1) IN
                    /\ part' = d.part
                    /\ IF d.done
                       THEN /\ jobcard' = SetField(jobcard, pr.job_card_id, "status", "in_progress")
                            /\ response' = Resp("update_parts_request", OK, "success")
                       ELSE /\ UNCHANGED jobcard
                            /\ response' = Resp("update_parts_request", InvalidInput, "Invalid ID format")
               ELSE /\ UNCHANGED <<part, jobcard>>
                    /\ response' = Resp("update_parts_request", OK, "success")

(***************************************************************************)
(* Sales: the invoice of a job card.                                       *)
(***************************************************************************)
\* A labor line that forgets the discount.
LaborLine_NoDiscount(l) ==
    [item_type |-> "labor", ref_id |-> NoneId, quantity |-> 1,
     unit_price |-> l.flat_hours * l.rate, discount |-> 0]

LaborLine(l) ==
    [item_type |-> "labor", ref_id |-> NoneId, quantity |-> 1,
     unit_price |-> l.flat_hours * l.rate - l.discount, discount |-> 0]

PartLine(p) ==
    [item_type |-> "part", ref_id |-> p.part_id, quantity |-> p.quantity,
     unit_price |-> p.price, discount |-> p.discount]

MaterialLine(m) ==
    [item_type |-> "material", ref_id |-> NoneId, quantity |-> 1,
     unit_price |-> m.cost, discount |-> 0]

OutsideLine(o) ==
    [item_type |-> "outside", ref_id |-> NoneId, quantity |-> 1,
     unit_price |-> o.cost, discount |-> 0]

JobCardLines(jc) ==
    [i \in 1..Len(jc.labor) |-> LaborLine(jc.labor[i])]
    \o [i \in 1..Len(jc.parts) |-> PartLine(jc.parts[i])]
    \o [i \in 1..Len(jc.materials) |-> MaterialLine(jc.materials[i])]
    \o [i \in 1..Len(jc.outside) |-> OutsideLine(jc.outside[i])]

\* Invoice(...): status defaults to "pending".
InvoiceDoc(source, source_id, customer_id, items, vat_rate) ==
    [source |-> source, source_id |-> source_id, customer_id |-> customer_id,
     items |-> items, vat_rate |-> vat_rate, status |-> "pending"]

jobcard_prepare_invoice(job_id) ==
    /\ UNCHANGED <<vehicle, customer, technician, part, partsrequest, quotation,
                   inventorymovement, proc>>
    /\ IF ~oid_ok(job_id)
       THEN /\ response' = Resp("jobcard_prepare_invoice", InvalidInput, "Invalid ID format")
            /\ UNCHANGED <<jobcard, invoice>>
       ELSE IF ~Exists(jobcard, job_id)
       THEN /\ response' = Resp("jobcard_prepare_invoice", NotFound, "Job card not found")
            /\ UNCHANGED <<jobcard, invoice>>
       ELSE LET jc == jobcard[job_id] IN
            /\ invoice' = create_document(invoice,
                   InvoiceDoc("job_card", job_id, jc.customer_id, JobCardLines(jc), jc.vat_rate))
            /\ jobcard' = SetField(jobcard, job_id, "status", "ready")
            /\ response' = Resp("jobcard_prepare_invoice", OK, "invoice_id")

(***************************************************************************)
(* Vehicle status.                                                         *)
(***************************************************************************)
\* update = {k: v for k, v in body.model_dump().items() if v is not None}
\* applied to a vehicle document.
ApplyVehicleUpdate(doc, body) ==
    [doc EXCEPT !.status = IF body.status # NoneStr THEN body.status ELSE @,
                !.location = IF body.location # NoneText THEN body.location ELSE @]

\* VehicleStatusUpdate.status is Optional[str]: any string is taken.  With no
\* field given the update is {"$set": {}}, which the server either refuses
\* (the handler ends with a server error) or takes as an update that changes
\* nothing, depending on its version.
update_vehicle_status(vehicle_id, body) ==
    /\ UNCHANGED <<customer, technician, part, jobcard, partsrequest, invoice, quotation,
                   inventorymovement, proc>>
    /\ IF ~oid_ok(vehicle_id)
       THEN /\ response' = Resp("update_vehicle_status", InvalidInput, "Invalid ID format")
            /\ UNCHANGED vehicle
       ELSE \/ /\ body.status = NoneStr /\ body.location = NoneText
               /\ response' = Resp("update_vehicle_status", ServerError, "empty $set")
               /\ UNCHANGED vehicle
            \/ IF ~Exists(vehicle, vehicle_id)
               THEN /\ response' = Resp("update_vehicle_status", NotFound, "Vehicle not found")
                    /\ UNCHANGED vehicle
               ELSE /\ vehicle' = [i \in 1..Len(vehicle) |->
                                     IF i = vehicle_id THEN ApplyVehicleUpdate(vehicle[i], body)
                                     ELSE vehicle[i]]
                    /\ response' = Resp("update_vehicle_status", OK, "success")

(***************************************************************************)
(* Inventory: manual stock adjustment.                                     *)
(***************************************************************************)
\* InventoryMovement(part_id, movement_type, quantity, reference, note)
InventoryMovementDoc(part_id, movement_type, quantity, reference, note) ==
    [part_id |-> part_id, movement_type |-> movement_type, quantity |-> quantity,
     reference |-> reference, note |-> note]

\* An adjustment that refuses to take the stock below zero.
adjust_stock_Guarded(part_id, adj) ==
    /\ UNCHANGED <<vehicle, customer, technician, jobcard, partsrequest, invoice, quotation,
                   proc>>
    /\ IF ~oid_ok(part_id)
       THEN /\ response' = Resp("adjust_stock", InvalidInput, "Invalid ID format")
            /\ UNCHANGED <<part, inventorymovement>>
       ELSE IF ~Exists(part, part_id)
       THEN /\ response' = Resp("adjust_stock", NotFound, "Part not found")
            /\ UNCHANGED <<part, inventorymovement>>
       ELSE IF part[part_id].stock + adj.quantity < 0
       THEN /\ response' = Resp("adjust_stock", InvalidInput, "Insufficient stock")
            /\ UNCHANGED <<part, inventorymovement>>
       ELSE /\ part' = IncField(part, part_id, "stock", adj.quantity)
            /\ inventorymovement' = create_document(inventorymovement,
                   InventoryMovementDoc(part_id, "adjust", adj.quantity, NoneId, adj.reason))
            /\ response' = Resp("adjust_stock", OK, "success")

adjust_stock(part_id, adj) ==
    /\ UNCHANGED <<vehicle, customer, technician, jobcard, partsrequest, invoice, quotation,
                   proc>>
    /\ IF ~oid_ok(part_id)
       THEN /\ response' = Resp("adjust_stock", InvalidInput, "Invalid ID format")
            /\ UNCHANGED <<part, inventorymovement>>
       ELSE IF ~Exists(part, part_id)
       THEN /\ response' = Resp("adjust_stock", NotFound, "Part not found")
            /\ UNCHANGED <<part, inventorymovement>>
       ELSE /\ part' = IncField(part, part_id, "stock", adj.quantity)
            /\ inventorymovement' = create_document(inventorymovement,
                   InventoryMovementDoc(part_id, "adjust", adj.quantity, NoneId, adj.reason))
            /\ response' = Resp("adjust_stock", OK, "success")

(***************************************************************************)
(* Sales: quotations and invoices.  Money is in cents, the VAT rate in     *)
(* percent.                                                                *)
(***************************************************************************)
create_quotation(q) ==
    /\ quotation' = create_document(quotation, q)
    /\ response' = Resp("create_quotation", OK, "id")
    /\ UNCHANGED <<vehicle, customer, technician, part, jobcard, partsrequest, invoice,
                   inventorymovement, proc>>

\* A conversion that takes the default VAT rate.
quotation_to_invoice_DefaultVat(qid) ==
    /\ UNCHANGED <<vehicle, customer, technician, part, jobcard, partsrequest,
                   inventorymovement, proc>>
    /\ IF ~oid_ok(qid)
       THEN /\ response' = Resp("quotation_to_invoice", InvalidInput, "Invalid ID format")
            /\ UNCHANGED <<invoice, quotation>>
       ELSE IF ~Exists(quotation, qid)
       THEN /\ response' = Resp("quotation_to_invoice", NotFound, "Quotation not found")
            /\ UNCHANGED <<invoice, quotation>>
       ELSE LET q == quotation[qid] IN
            /\ invoice' = create_document(invoice,
                   InvoiceDoc("quotation", qid, q.customer_id, q.items, DefaultVatRate))
            /\ quotation' = SetField(quotation, qid, "status", "invoiced")
            /\ response' = Resp("quotation_to_invoice", OK, "invoice_id")

quotation_to_invoice(qid) ==
    /\ UNCHANGED <<vehicle, customer, technician, part, jobcard, partsrequest,
                   inventorymovement, proc>>
    /\ IF ~oid_ok(qid)
       THEN /\ response' = Resp("quotation_to_invoice", InvalidInput, "Invalid ID format")
            /\ UNCHANGED <<invoice, quotation>>
       ELSE IF ~Exists(quotation, qid)
       THEN /\ response' = Resp("quotation_to_invoice", NotFound, "Quotation not found")
            /\ UNCHANGED <<invoice, quotation>>
       ELSE LET q == quotation[qid] IN
            /\ invoice' = create_document(invoice,
                   InvoiceDoc("quotation", qid, q.customer_id, q.items, q.vat_rate))
            /\ quotation' = SetField(quotation, qid, "status", "invoiced")
            /\ response' = Resp("quotation_to_invoice", OK, "invoice_id")

create_invoice(inv) ==
    /\ invoice' = create_document(invoice, inv)
    /\ response' = Resp("create_invoice", OK, "id")
    /\ UNCHANGED <<vehicle, customer, technician, part, jobcard, partsrequest, quotation,
                   inventorymovement, proc>>

\* round(x, 2) of the amount num/den cents: the nearest cent, a tie to the
\* even cent.
Round(num, den) ==
    LET q == num \div den
        r == num % den IN
    IF 2 * r < den THEN q
    ELSE IF 2 * r > den THEN q + 1
    ELSE IF q % 2 = 0 THEN q ELSE q + 1

\* list_invoices, the loop over d["items"]: subtotal and vat_total after the
\* lines from i on.
RECURSIVE list_lines(_, _, _, _, _)
list_lines(items, vat_rate, i, subtotal, vat_total) ==
    IF i > Len(items) THEN [subtotal |-> subtotal, vat_total |-> vat_total]
    ELSE LET it == items[i]
             line_net == Round(it.unit_price * it.quantity - it.discount, 1) IN
         list_lines(items, vat_rate, i + 1, subtotal + line_net,
                    vat_total + Round(line_net * vat_rate, 100))

\* list_invoices: the computed fields attached to document d.
list_totals(d) ==
    LET s == list_lines(d.items, d.vat_rate, 1, 0, 0)
        subtotal == Round(s.subtotal, 1)
        vat_total == Round(s.vat_total, 1) IN
    [subtotal |-> subtotal, vat |-> vat_total, total |-> Round(subtotal + vat_total, 1)]

\* find(filt).sort("_id", -1): the newest first.
RECURSIVE Reverse(_)
Reverse(s) == IF s = <<>> THEN <<>> ELSE Reverse(Tail(s)) \o <<Head(s)>>

list_invoices(status) ==
    /\ LET found == FindIds(invoice, {i \in 1..Len(invoice) :
                                        ~TruthyStr(status) \/ invoice[i].status = status}, 1)
           docs == Limit(Reverse(found), ListLimit) IN
       response' = [Resp("list_invoices", OK, "list") EXCEPT
                      !.result = [k \in 1..Len(docs) |->
                                    [id |-> docs[k], total |-> list_totals(invoice[docs[k]]).total]]]
    /\ UNCHANGED <<db, proc>>

\* pay_invoice, the loop over inv["items"]: VAT summed before it is rounded.
RECURSIVE pay_lines_VatOnSum(_, _, _, _, _)
pay_lines_VatOnSum(items, vat_rate, i, subtotal, vat_total) ==
    IF i > Len(items) THEN [subtotal |-> subtotal, vat_total |-> Round(vat_total, 100)]
    ELSE LET it == items[i]
             line_net == Round(it.unit_price * it.quantity - it.discount, 1) IN
         pay_lines_VatOnSum(items, vat_rate, i + 1, subtotal + line_net,
                            vat_total + line_net * vat_rate)

\* pay_invoice, the loop over inv["items"].
RECURSIVE pay_lines(_, _, _, _, _)
pay_lines(items, vat_rate, i, subtotal, vat_total) ==
    IF i > Len(items) THEN [subtotal |-> subtotal, vat_total |-> vat_total]
    ELSE LET it == items[i]
             line_net == Round(it.unit_price * it.quantity - it.discount, 1) IN
         pay_lines(items, vat_rate, i + 1, subtotal + line_net,
                   vat_total + Round(line_net * vat_rate, 100))

\* total_due with the VAT rounded once, on the sum of the lines.
total_due_VatOnSum(inv) ==
    LET s == pay_lines_VatOnSum(inv.items, inv.vat_rate, 1, 0, 0)
        subtotal == Round(s.subtotal, 1)
        vat_total == Round(s.vat_total, 1) IN
    Round(subtotal + vat_total, 1)

\* pay_invoice: total_due.
total_due(inv) ==
    LET s == pay_lines(inv.items, inv.vat_rate, 1, 0, 0)
        subtotal == Round(s.subtotal, 1)
        vat_total == Round(s.vat_total, 1) IN
    Round(subtotal + vat_total, 1)

\* A payment: method, amount, optional reference.
Payment(method, amount, reference) ==
    [method |-> method, amount |-> amount, reference |-> reference]

ReferenceMethods == {"bank_transfer", "cheque", "account"}

RECURSIVE SumAmounts(_, _)
SumAmounts(payments, i) ==
    IF i > Len(payments) THEN 0 ELSE payments[i].amount + SumAmounts(payments, i + 1)

\* _validate_payments: "ok", or the detail of the error raised.
RECURSIVE _validate_payments(_, _, _)
_validate_payments(payments, due, i) ==
    IF i > Len(payments)
    THEN IF Round(SumAmounts(payments, 1), 1) < Round(due, 1)
         THEN "Insufficient payment amount" ELSE "ok"
    ELSE IF payments[i].method \in ReferenceMethods /\ ~TruthyStr(payments[i].reference)
    THEN "Reference required"
    ELSE IF payments[i].amount <= 0
    THEN "Payment amount must be positive"
    ELSE _validate_payments(payments, due, i + 1)

\* if body.payments and len(body.payments) > 0: ... else the legacy payment.
payments_payload(body, due) ==
    IF body.payments # <<>> THEN body.payments
    ELSE <<Payment(IF TruthyStr(body.method) THEN body.method ELSE "cash", due, NoneStr)>>

\* it.get("ref_id"): a reference that is None (or empty) is no reference.
HasRef(it) == it.ref_id # NoneId

\* The deduction of a sale whatever the source of the invoice.
sale_applies_AnySource(inv) == TRUE

\* if inv.get("source") == "parts"
sale_applies(inv) == inv.source = "parts"

\* A sale of one unit a line.
sold_quantity_One(it) == 1

\* int(it.get("quantity", 1))
sold_quantity(it) == it.quantity

\* for it in inv["items"]: the stock update and the movement of every part
\* line with a reference.  oid() raises on a malformed ref_id: the loop and
\* the handler stop there.  The result: the collections reached, and whether
\* the loop completed.
RECURSIVE sell_parts(_, _, _, _, _)
sell_parts(parts, moves, items, inv_id, i) ==
    IF i > Len(items) THEN [part |-> parts, inventorymovement |-> moves, done |-> TRUE]
    ELSE IF items[i].item_type = "part" /\ HasRef(items[i])
    THEN IF ~oid_ok(items[i].ref_id)
         THEN [part |-> parts, inventorymovement |-> moves, done |-> FALSE]
         ELSE sell_parts(IncField(parts, items[i].ref_id, "stock", -sold_quantity(items[i])),
                         create_document(moves,
                             InventoryMovementDoc(items[i].ref_id, "out", sold_quantity(items[i]),
                                                  inv_id, "parts sale")),
                         items, inv_id, i + 1)
    ELSE sell_parts(parts, moves, items, inv_id, i + 1)

\* {"$set": {"status": "paid", "cashier_id": ..., "method": ..., "payments": [...]}}
PaidDoc(inv, body, payments) ==
    [f \in DOMAIN inv \cup {"status", "cashier_id", "method", "payments"} |->
        CASE f = "status" -> "paid"
          [] f = "cashier_id" -> body.cashier_id
          [] f = "method" -> body.method
          [] f = "payments" -> payments
          [] OTHER -> inv[f]]

\* A handler that deducts the sale only while the invoice is not yet paid.
pay_invoice_SellsOnce(inv_id, body) ==
    /\ UNCHANGED <<vehicle, customer, technician, jobcard, partsrequest, quotation, proc>>
    /\ IF ~oid_ok(inv_id)
       THEN /\ response' = Resp("pay_invoice", InvalidInput, "Invalid ID format")
            /\ UNCHANGED <<part, invoice, inventorymovement>>
       ELSE IF ~Exists(invoice, inv_id)
       THEN /\ response' = Resp("pay_invoice", NotFound, "Invoice not found")
            /\ UNCHANGED <<part, invoice, inventorymovement>>
       ELSE LET inv == invoice[inv_id]
                due == total_due(inv)
                payload == payments_payload(body, due)
                valid == _validate_payments(payload, due, 1) IN
            IF valid # "ok"
            THEN /\ response' = Resp("pay_invoice", InvalidInput, valid)
                 /\ UNCHANGED <<part, invoice, inventorymovement>>
            ELSE LET s == IF sale_applies(inv) /\ inv.status # "paid"
                          THEN sell_parts(part, inventorymovement, inv.items, inv_id, 1)
                          ELSE [part |-> part, inventorymovement |-> inventorymovement,
                                done |-> TRUE] IN
                 /\ part' = s.part
                 /\ inventorymovement' = s.inventorymovement
                 /\ IF s.done
                    THEN /\ invoice' = [i \in 1..Len(invoice) |->
                                          IF i = inv_id THEN PaidDoc(inv, body, payload)
                                          ELSE invoice[i]]
                         /\ response' = Resp("pay_invoice", OK, "success")
                    ELSE /\ UNCHANGED invoice
                         /\ response' = Resp("pay_invoice", InvalidInput, "Invalid ID format")

pay_invoice(inv_id, body) ==
    /\ UNCHANGED <<vehicle, customer, technician, jobcard, partsrequest, quotation, proc>>
    /\ IF ~oid_ok(inv_id)
       THEN /\ response' = Resp("pay_invoice", InvalidInput, "Invalid ID format")
            /\ UNCHANGED <<part, invoice, inventorymovement>>
       ELSE IF ~Exists(invoice, inv_id)
       THEN /\ response' = Resp("pay_invoice", NotFound, "Invoice not found")
            /\ UNCHANGED <<part, invoice, inventorymovement>>
       ELSE LET inv == invoice[inv_id]
                due == total_due(inv)
                payload == payments_payload(body, due)
                valid == _validate_payments(payload, due, 1) IN
            IF valid # "ok"
            THEN /\ response' = Resp("pay_invoice", InvalidInput, valid)
                 /\ UNCHANGED <<part, invoice, inventorymovement>>
            ELSE LET s == IF sale_applies(inv)
                          THEN sell_parts(part, inventorymovement, inv.items, inv_id, 1)
                          ELSE [part |-> part, inventorymovement |-> inventorymovement,
                                done |-> TRUE] IN
                 /\ part' = s.part
                 /\ inventorymovement' = s.inventorymovement
                 /\ IF s.done
                    THEN /\ invoice' = [i \in 1..Len(invoice) |->
                                          IF i = inv_id THEN PaidDoc(inv, body, payload)
                                          ELSE invoice[i]]
                         /\ response' = Resp("pay_invoice", OK, "success")
                    ELSE /\ UNCHANGED invoice
                         /\ response' = Resp("pay_invoice", InvalidInput, "Invalid ID format")

(***************************************************************************)
(* The service workflow, requests served one at a time.                    *)
(***************************************************************************)
Vin1 == <<"A", "B", "C", "1", "2">>

ServiceVehicleInputs ==
    {[vin |-> Vin1, make |-> NoneText, model |-> NoneText, color |-> NoneText,
      location |-> NoneText]}

TechnicianIdsInputs == {<<>>, <<1>>, <<2, 1>>}

JobCardInputs ==
    [vehicle_id : {1, BadId}, customer_id : {1}, technician_ids : TechnicianIdsInputs,
     status : {"open", "closed"}, labor : {<<>>}, parts : {<<>>}, materials : {<<>>},
     outside : {<<>>}, vat_rate : {15}]

JobIdInputs == 1..MaxJobCards

\* set_jobcard_status takes any string.
JobStatusInputs == {"in_progress", "waiting_parts", "closed"}

AssignInputs == [technician_ids : TechnicianIdsInputs, primary_technician_id : {NoneId}]

MasterData ==
    \/ /\ Len(vehicle) < MaxVehicles
       /\ \E v \in ServiceVehicleInputs : register_vehicle(v)
    \/ /\ Len(customer) < MaxCustomers
       /\ create_customer([name |-> "C"])

Bootstrap ==
    \/ MasterData
    \/ /\ Len(technician) < MaxTechnicians
       /\ create_technician([name |-> "T2"])

Next ==
    \/ Bootstrap
    \/ \E j \in JobCardInputs : create_jobcard(j) /\ Len(jobcard') <= MaxJobCards
    \/ \E job_id \in JobIdInputs, st \in JobStatusInputs : set_jobcard_status(job_id, st)
    \/ \E job_id \in JobIdInputs, body \in AssignInputs : assign_technicians(job_id, body)

Spec == Init /\ [][Next]_vars

(***************************************************************************)
(* The whole service workflow: job cards, parts requests with no items,    *)
(* and the invoice of a job card.                                          *)
(***************************************************************************)
ServiceAssignInputs ==
    AssignInputs \cup {[technician_ids |-> <<1>>, primary_technician_id |-> 1]}

ServicePartsRequestInputs ==
    [job_card_id : {1, BadId}, items : {<<>>}, status : {"requested"}]

PartsRequestIdInputs == 1..MaxPartsRequests

PartsRequestStatusInputs == {"approved", "supplied", "rejected"}

ServiceNext ==
    \/ Bootstrap
    \/ \E j \in JobCardInputs : create_jobcard(j) /\ Len(jobcard') <= MaxJobCards
    \/ \E job_id \in JobIdInputs, st \in JobStatusInputs : set_jobcard_status(job_id, st)
    \/ \E job_id \in JobIdInputs, body \in ServiceAssignInputs : assign_technicians(job_id, body)
    \/ \E req \in ServicePartsRequestInputs :
          create_parts_request(req) /\ Len(partsrequest') <= MaxPartsRequests
    \/ \E req_id \in PartsRequestIdInputs, st \in PartsRequestStatusInputs :
          update_parts_request(req_id, st)
    \/ \E job_id \in JobIdInputs :
          jobcard_prepare_invoice(job_id) /\ Len(invoice') <= MaxInvoices

SpecService == Init /\ [][ServiceNext]_vars

(***************************************************************************)
(* Parts requests and stock.                                               *)
(***************************************************************************)
PartInputs == {[sku |-> <<"A", "1">>, name |-> <<"c">>, stock |-> 2],
               [sku |-> <<"A", "2">>, name |-> <<"c">>, stock |-> 0]}

PartsJobCardInputs ==
    [vehicle_id : {1}, customer_id : {1}, technician_ids : {<<>>},
     status : {"open", "closed"}, labor : {<<>>}, parts : {<<>>}, materials : {<<>>},
     outside : {<<>>}, vat_rate : {15}]

PartItem(part_id, quantity) ==
    [part_id |-> part_id, quantity |-> quantity, price |-> 0, discount |-> 0]

\* Items that name a part twice and a part that may not exist; items with a
\* malformed part reference between two good ones.
ItemsInputs ==
    {<<PartItem(1, 1), PartItem(2, 2), PartItem(1, 1)>>,
     <<PartItem(1, 1), PartItem(BadId, 1), PartItem(2, 1)>>}

PartsRequestInputs ==
    [job_card_id : {1, BadId}, items : ItemsInputs, status : {"requested"}]

StockAbove(parts, floor) == \A i \in 1..Len(parts) : parts[i].stock >= floor

PartsNext ==
    \/ MasterData
    \/ /\ Len(part) < MaxParts
       /\ \E p \in PartInputs : create_part(p)
    \/ \E j \in PartsJobCardInputs : create_jobcard(j) /\ Len(jobcard') <= MaxJobCards
    \/ \E req \in PartsRequestInputs :
          create_parts_request(req) /\ Len(partsrequest') <= MaxPartsRequests
    \/ \E req_id \in PartsRequestIdInputs \cup {BadId}, st \in PartsRequestStatusInputs :
          update_parts_request(req_id, st) /\ StockAbove(part', -MaxShortfall)

SpecParts == Init /\ [][PartsNext]_vars

(***************************************************************************)
(* Stock: parts, manual adjustments and sales.                             *)
(***************************************************************************)
\* QuotationItem(item_type, ref_id, quantity, unit_price, discount)
QuotationItem(item_type, ref_id, quantity, unit_price, discount) ==
    [item_type |-> item_type, ref_id |-> ref_id, quantity |-> quantity,
     unit_price |-> unit_price, discount |-> discount]

\* Lines of a sale: a part twice, a labor line that carries a reference, a
\* part line without one, a part that may not exist; and lines with a
\* malformed reference after a good one.
SaleItems ==
    <<QuotationItem("part", 1, 1, 4, 0), QuotationItem("labor", 2, 1, 3, 0),
      QuotationItem("part", NoneId, 1, 3, 0), QuotationItem("part", 2, 2, 4, 0),
      QuotationItem("part", 1, 1, 4, 0)>>

SaleItemsBadRef ==
    <<QuotationItem("part", 1, 1, 4, 0), QuotationItem("part", BadId, 1, 4, 0),
      QuotationItem("part", 2, 1, 4, 0)>>

\* Invoice(source, source_id, customer_id, items, vat_rate, status)
Invoice(source, items) ==
    [source |-> source, source_id |-> NoneId, customer_id |-> 1, items |-> items,
     vat_rate |-> 15, status |-> "pending"]

\* One part in stock; part 2 of the lines never exists.
StockPartInputs == {[sku |-> <<"A", "1">>, name |-> <<"c">>, stock |-> 2]}

StockPartIds == {1, 2}

StockInvoiceInputs ==
    {Invoice("parts", SaleItems), Invoice("vehicle", SaleItems),
     Invoice("parts", SaleItemsBadRef)}

\* StockAdjust(quantity, reason): a signed quantity.
StockAdjustInputs == [quantity : {-3, 1}, reason : {NoneStr}]

\* PayInvoice with no payment list: the legacy payment of the total in cash.
LegacyPay == [cashier_id |-> NoneId, method |-> NoneStr, payments |-> <<>>]

StockNext ==
    \/ /\ Len(part) < MaxParts
       /\ \E p \in StockPartInputs : create_part(p)
    \/ \E part_id \in StockPartIds \cup {BadId}, adj \in StockAdjustInputs :
          /\ adjust_stock(part_id, adj)
          /\ Len(inventorymovement') <= MaxMovements
          /\ StockAbove(part', -MaxShortfall)
    \/ \E inv \in StockInvoiceInputs : create_invoice(inv) /\ Len(invoice') <= MaxInvoices
    \/ \E inv_id \in 1..MaxInvoices \cup {BadId} :
          /\ pay_invoice(inv_id, LegacyPay)
          /\ Len(inventorymovement') <= MaxMovements
          /\ StockAbove(part', -MaxShortfall)

SpecStock == Init /\ [][StockNext]_vars

(***************************************************************************)
(* Every operation that reads or writes parts, job cards, parts requests,  *)
(* quotations or invoices, one at a time.                                  *)
(***************************************************************************)
ShortSale == <<QuotationItem("part", 1, 1, 4, 0)>>

InventoryInvoiceInputs == {Invoice("parts", ShortSale), Invoice("vehicle", ShortSale)}

InventoryQuotationInputs ==
    [customer_id : {1}, items : {ShortSale}, vat_rate : {15}, status : {"draft"}]

InventoryJobCardInputs ==
    [vehicle_id : {1}, customer_id : {1}, technician_ids : {<<>>},
     status : {"open"}, labor : {<<>>}, parts : {<<PartItem(1, 1)>>}, materials : {<<>>},
     outside : {<<>>}, vat_rate : {15}]

InventoryRequestInputs ==
    [job_card_id : {1}, items : {<<PartItem(1, 1)>>}, status : {"requested"}]

InventoryAdjustInputs == [quantity : {-1}, reason : {NoneStr}]

\* The documents of the workflows that end in a sale or a supply.
Documents(jobcards, requests, quotations, invoices) ==
    Len(jobcards) + Len(requests) + Len(quotations) + Len(invoices)

InventoryNext ==
    \/ MasterData
    \/ /\ Len(part) < MaxParts
       /\ \E p \in StockPartInputs : create_part(p)
    \/ \E adj \in InventoryAdjustInputs :
          /\ adjust_stock(1, adj)
          /\ Len(inventorymovement') <= MaxMovements
          /\ StockAbove(part', -MaxShortfall)
    \/ \E j \in InventoryJobCardInputs :
          /\ create_jobcard(j)
          /\ Documents(jobcard', partsrequest', quotation', invoice') <= MaxDocuments
    \/ \E req \in InventoryRequestInputs :
          /\ create_parts_request(req)
          /\ Documents(jobcard', partsrequest', quotation', invoice') <= MaxDocuments
    \/ \E job_id \in 1..MaxDocuments :
          /\ jobcard_prepare_invoice(job_id)
          /\ Documents(jobcard', partsrequest', quotation', invoice') <= MaxDocuments
    \/ \E q \in InventoryQuotationInputs :
          /\ create_quotation(q)
          /\ Documents(jobcard', partsrequest', quotation', invoice') <= MaxDocuments
    \/ \E qid \in 1..MaxDocuments :
          /\ quotation_to_invoice(qid)
          /\ Documents(jobcard', partsrequest', quotation', invoice') <= MaxDocuments
    \/ \E inv \in InventoryInvoiceInputs :
          /\ create_invoice(inv)
          /\ Documents(jobcard', partsrequest', quotation', invoice') <= MaxDocuments
    \/ \E req_id \in 1..MaxDocuments, st \in {"supplied", "rejected"} :
          update_parts_request(req_id, st) /\ StockAbove(part', -MaxShortfall)
    \/ \E inv_id \in 1..MaxDocuments :
          /\ pay_invoice(inv_id, LegacyPay)
          /\ Len(inventorymovement') <= MaxMovements
          /\ StockAbove(part', -MaxShortfall)

SpecInventory == Init /\ [][InventoryNext]_vars

(***************************************************************************)
(* Billing: invoices listed and paid.                                      *)
(***************************************************************************)
\* Two lines of 0.03 at 15%: the VAT of each line rounds to 0.00 (total      
\* 0.06), the VAT of their sum would round to 0.01.
TwoSmallLines == <<QuotationItem("part", 1, 1, 3, 0), QuotationItem("part", 1, 1, 3, 0)>>

\* 2 x 0.05 - 0.01 = 0.09, VAT 0.0135 rounds to 0.01: total 0.10.
DiscountedLine == <<QuotationItem("vehicle", NoneId, 2, 5, 1)>>

\* A discount above the price: total -0.03.
NegativeLine == <<QuotationItem("labor", NoneId, 1, 2, 5)>>

BillingInvoiceInputs ==
    {Invoice("parts", TwoSmallLines), Invoice("vehicle", DiscountedLine),
     Invoice("job_card", NegativeLine), Invoice("parts", SaleItemsBadRef)}

\* PayInvoice.payments: exact, split, short by a cent, over; a method that
\* needs a reference with none, with an empty one, with one; an amount of
\* zero; a negative amount in a list whose sum is enough.
PaymentsInputs ==
    {<<Payment("cash", 6, NoneStr)>>,
     <<Payment("cash", 4, NoneStr), Payment("card", 2, NoneStr)>>,
     <<Payment("cash", 5, NoneStr)>>,
     <<Payment("cash", 20, NoneStr)>>,
     <<Payment("bank_transfer", 10, NoneStr)>>,
     <<Payment("cheque", 10, "")>>,
     <<Payment("account", 10, "R1")>>,
     <<Payment("cash", 0, NoneStr)>>,
     <<Payment("cash", 20, NoneStr), Payment("cash", -1, NoneStr)>>}

ExplicitPayInputs == [cashier_id : {NoneId}, method : {NoneStr}, payments : PaymentsInputs]

\* No payment list: the legacy method, given or not.
LegacyPayInputs ==
    [cashier_id : {NoneId}, method : {NoneStr, "", "card", "cheque"}, payments : {<<>>}]

InvoiceIdInputs == 1..MaxInvoices

BillingNext ==
    \/ /\ Len(part) < MaxParts
       /\ \E p \in StockPartInputs : create_part(p)
    \/ \E inv \in BillingInvoiceInputs : create_invoice(inv) /\ Len(invoice') <= MaxInvoices
    \/ \E status \in {NoneStr, "", "paid"} : list_invoices(status)
    \/ \E inv_id \in InvoiceIdInputs, body \in ExplicitPayInputs \cup LegacyPayInputs :
          /\ pay_invoice(inv_id, body)
          /\ Len(inventorymovement') <= MaxMovements
          /\ StockAbove(part', -MaxShortfall)

SpecBilling == Init /\ [][BillingNext]_vars

(***************************************************************************)
(* Invoicing: a quotation or a job card turned into an invoice.            *)
(***************************************************************************)
\* LaborItem(flat_hours, rate, discount)
LaborItem(flat_hours, rate, discount) ==
    [flat_hours |-> flat_hours, rate |-> rate, discount |-> discount]

\* A job card with two labor items, a part item with a discount, a material
\* and an outside-work item; and one with no item at all.
InvoicingJobCardInputs ==
    {[vehicle_id |-> 1, customer_id |-> 1, technician_ids |-> <<>>, status |-> "open",
      labor |-> <<LaborItem(2, 5, 1), LaborItem(1, 4, 0)>>,
      parts |-> <<[part_id |-> 1, quantity |-> 2, price |-> 7, discount |-> 1]>>,
      materials |-> <<[cost |-> 3]>>,
      outside |-> <<[vendor_id |-> NoneId, cost |-> 6]>>,
      vat_rate |-> 5],
     [vehicle_id |-> 1, customer_id |-> 1, technician_ids |-> <<>>, status |-> "closed",
      labor |-> <<>>, parts |-> <<>>, materials |-> <<>>, outside |-> <<>>,
      vat_rate |-> 15]}

\* Quotation(customer_id, items, vat_rate, status)
InvoicingQuotationInputs ==
    [customer_id : {1}, items : {TwoSmallLines, DiscountedLine}, vat_rate : {15, 5},
     status : {"draft", "accepted"}]

InvoicingNext ==
    \/ MasterData
    \/ \E j \in InvoicingJobCardInputs :
          /\ create_jobcard(j)
          /\ Documents(jobcard', partsrequest', quotation', invoice') <= MaxDocuments
    \/ \E job_id \in 1..MaxDocuments :
          /\ jobcard_prepare_invoice(job_id)
          /\ Documents(jobcard', partsrequest', quotation', invoice') <= MaxDocuments
    \/ \E q \in InvoicingQuotationInputs :
          /\ create_quotation(q)
          /\ Documents(jobcard', partsrequest', quotation', invoice') <= MaxDocuments
    \/ \E qid \in 1..MaxDocuments :
          /\ quotation_to_invoice(qid)
          /\ Documents(jobcard', partsrequest', quotation', invoice') <= MaxDocuments

SpecInvoicing == Init /\ [][InvoicingNext]_vars

(***************************************************************************)
(* Identifiers: requests that carry a malformed identifier, in the path    *)
(* or in the lines of a stored parts request or invoice.                   *)
(***************************************************************************)
IdsJobCardInputs ==
    [vehicle_id : {1, BadId}, customer_id : {1}, technician_ids : {<<>>, <<BadId>>},
     status : {"open"}, labor : {<<>>}, parts : {<<>>}, materials : {<<>>},
     outside : {<<>>}, vat_rate : {15}]

IdsRequestInputs ==
    [job_card_id : {1, BadId}, items : {<<PartItem(1, 1), PartItem(BadId, 1), PartItem(1, 1)>>},
     status : {"requested"}]

IdsAssignInputs == [technician_ids : {<<BadId>>}, primary_technician_id : {NoneId}]

IdsVehicleUpdate == [status |-> "sold", location |-> NoneText]

IdInputs == {1, BadId}

IdsNext ==
    \/ MasterData
    \/ /\ Len(part) < MaxParts
       /\ \E p \in StockPartInputs : create_part(p)
    \/ \E j \in IdsJobCardInputs :
          /\ create_jobcard(j)
          /\ Documents(jobcard', partsrequest', quotation', invoice') <= MaxDocuments
    \/ \E req \in IdsRequestInputs :
          /\ create_parts_request(req)
          /\ Documents(jobcard', partsrequest', quotation', invoice') <= MaxDocuments
    \/ \E req_id \in IdInputs :
          update_parts_request(req_id, "supplied") /\ StockAbove(part', -MaxShortfall)
    \/ /\ create_invoice(Invoice("parts", SaleItemsBadRef))
       /\ Documents(jobcard', partsrequest', quotation', invoice') <= MaxDocuments
    \/ \E inv_id \in IdInputs :
          /\ pay_invoice(inv_id, LegacyPay)
          /\ Len(inventorymovement') <= MaxMovements
          /\ StockAbove(part', -MaxShortfall)
    \/ \E adj \in InventoryAdjustInputs : adjust_stock(BadId, adj)
    \/ update_vehicle_status(BadId, IdsVehicleUpdate)
    \/ set_jobcard_status(BadId, "closed")
    \/ \E job_id \in IdInputs, body \in IdsAssignInputs : assign_technicians(job_id, body)
    \/ jobcard_prepare_invoice(BadId)
    \/ quotation_to_invoice(BadId)

SpecIds == Init /\ [][IdsNext]_vars

(***************************************************************************)
(* Vehicles: registration, direct status updates and job cards.            *)
(***************************************************************************)
Vin2 == <<"A", "B", "C", "1", "3">>

FleetVehicleInputs ==
    {[vin |-> v, make |-> NoneText, model |-> NoneText, color |-> NoneText,
      location |-> NoneText] : v \in {Vin1, Vin2}}

\* VehicleStatusUpdate: both fields optional, status any string.
VehicleUpdateInputs ==
    [status : VehicleStatus \cup {"scrapped", NoneStr}, location : {NoneText, <<"Y">>}]

VehicleIdInputs == {1, 2, BadId}

FleetJobCardInputs ==
    [vehicle_id : {1, 2}, customer_id : {1}, technician_ids : {<<>>, <<2, 1>>},
     status : {"open"}, labor : {<<>>}, parts : {<<>>}, materials : {<<>>},
     outside : {<<>>}, vat_rate : {15}]

VehicleNext ==
    \/ /\ Len(vehicle) < MaxVehicles
       /\ \E v \in FleetVehicleInputs : register_vehicle(v)
    \/ /\ Len(customer) < MaxCustomers
       /\ create_customer([name |-> "C"])
    \/ /\ Len(technician) < MaxTechnicians
       /\ create_technician([name |-> "T2"])
    \/ \E vehicle_id \in VehicleIdInputs, body \in VehicleUpdateInputs :
          update_vehicle_status(vehicle_id, body)
    \/ /\ Len(jobcard) < MaxJobCards
       /\ \E j \in FleetJobCardInputs : create_jobcard(j)

SpecVehicle == Init /\ [][VehicleNext]_vars

(***************************************************************************)
(* The catalog: vehicles and parts, registered and searched.               *)
(***************************************************************************)
VinUpper == <<"A", "B", "C", "D", "E">>
VinLower == <<"a", "b", "c", "d", "e">>
VinShort == <<"A", "B", "C", "D">>
VinOther == <<"C", "D", "E", "1", "2">>

CatalogVehicle(vin, make) ==
    [vin |-> vin, make |-> make, model |-> NoneText, color |-> NoneText,
     location |-> NoneText]

CatalogVehicleInputs ==
    {CatalogVehicle(VinUpper, NoneText), CatalogVehicle(VinLower, <<"C", "D">>),
     CatalogVehicle(VinShort, NoneText), CatalogVehicle(VinOther, <<"a", "b">>)}

\* No q, an empty q, a q that occurs nowhere, and pieces of the VINs.
VehicleQueryInputs ==
    {NoneText, <<>>, <<"Z">>, <<"C", "D">>, <<"c", "d", "e">>, <<"E", "1">>, <<"b">>, VinUpper}

SkuUpper == <<"A", "B", "1">>
SkuLower == <<"a", "b", "1">>

CatalogPartInputs ==
    [sku : {SkuUpper, SkuLower, <<>>}, name : {<<"c", "a">>}, stock : {0, 2}]

SkuQueryInputs == {NoneText, <<>>, SkuUpper, SkuLower, <<"A", "B">>}

PartQueryInputs == {NoneText, <<"b">>}

CatalogNext ==
    \/ \E v \in CatalogVehicleInputs : register_vehicle(v) /\ Len(vehicle') <= MaxVehicles
    \/ \E q \in VehicleQueryInputs : search_vehicles(q)
    \/ \E p \in CatalogPartInputs : create_part(p) /\ Len(part') <= MaxParts
    \/ \E q \in PartQueryInputs, sku \in SkuQueryInputs : search_parts(q, sku)

SpecCatalog == Init /\ [][CatalogNext]_vars

(***************************************************************************)
(* Concurrent handlers.  A handler is a sequence of database operations,   *)
(* each atomic on its own; between two of them the other handlers run.     *)
(* proc[p].pc names the operation handler p performs next.                 *)
(***************************************************************************)
Goto(p, pc, arg, i) == proc' = [proc EXCEPT ![p] = [pc |-> pc, arg |-> arg, i |-> i]]

Return(p, resp) ==
    /\ proc' = [proc EXCEPT ![p] = Idle]
    /\ response' = resp

\* register_vehicle, line 162-169: find_one, then the Vehicle model is built.
register_vehicle_find(p, v) ==
    /\ proc[p].pc = "idle"
    /\ UNCHANGED db
    /\ IF VinRegistered(v.vin)
       THEN Return(p, Resp("register_vehicle", Conflict, "VIN already registered"))
       ELSE IF ~VehicleValid(v)
       THEN Return(p, Resp("register_vehicle", ServerError, "validation"))
       ELSE Goto(p, "vehicle_insert", v, 0) /\ UNCHANGED response

\* An insert behind a unique index on vin: a duplicate is refused.
register_vehicle_insert_Unique(p) ==
    /\ proc[p].pc = "vehicle_insert"
    /\ IF VinRegistered(proc[p].arg.vin)
       THEN /\ UNCHANGED vehicle
            /\ Return(p, Resp("register_vehicle", Conflict, "VIN already registered"))
       ELSE /\ vehicle' = create_document(vehicle, VehicleDoc(proc[p].arg))
            /\ Return(p, Resp("register_vehicle", OK, "id"))
    /\ UNCHANGED <<customer, technician, part, jobcard, partsrequest, invoice, quotation,
                   inventorymovement>>

\* register_vehicle, line 170: create_document.
register_vehicle_insert(p) ==
    /\ proc[p].pc = "vehicle_insert"
    /\ vehicle' = create_document(vehicle, VehicleDoc(proc[p].arg))
    /\ Return(p, Resp("register_vehicle", OK, "id"))
    /\ UNCHANGED <<customer, technician, part, jobcard, partsrequest, invoice, quotation,
                   inventorymovement>>

\* create_part, line 205.
create_part_find(p, pt) ==
    /\ proc[p].pc = "idle"
    /\ UNCHANGED db
    /\ IF SkuExists(pt.sku)
       THEN Return(p, Resp("create_part", Conflict, "SKU already exists"))
       ELSE Goto(p, "part_insert", pt, 0) /\ UNCHANGED response

\* create_part, line 207.
create_part_insert(p) ==
    /\ proc[p].pc = "part_insert"
    /\ part' = create_document(part, proc[p].arg)
    /\ Return(p, Resp("create_part", OK, "id"))
    /\ UNCHANGED <<vehicle, customer, technician, jobcard, partsrequest, invoice, quotation,
                   inventorymovement>>

RaceVehicleInputs == {CatalogVehicle(VinUpper, NoneText), CatalogVehicle(VinLower, NoneText),
                      CatalogVehicle(VinShort, NoneText)}

RacePartInputs == [sku : {SkuUpper, SkuLower}, name : {<<"c", "a">>}, stock : {0}]

RaceUniqueNext ==
    \E p \in Workers :
       \/ \E v \in RaceVehicleInputs : register_vehicle_find(p, v)
       \/ register_vehicle_insert(p) /\ Len(vehicle') <= MaxVehicles
       \/ \E pt \in RacePartInputs : create_part_find(p, pt)
       \/ create_part_insert(p) /\ Len(part') <= MaxParts

SpecRaceUnique == Init /\ [][RaceUniqueNext]_vars

\* create_jobcard, line 244.
create_jobcard_find_vehicle(p, j) ==
    /\ proc[p].pc = "idle"
    /\ UNCHANGED db
    /\ IF ~oid_ok(j.vehicle_id)
       THEN Return(p, Resp("create_jobcard", InvalidInput, "Invalid ID format"))
       ELSE IF ~Exists(vehicle, j.vehicle_id)
       THEN Return(p, Resp("create_jobcard", NotFound, "Vehicle not found"))
       ELSE Goto(p, "jobcard_find_customer", j, 0) /\ UNCHANGED response

\* create_jobcard, line 246; the loop of line 250 is entered or skipped.
create_jobcard_find_customer(p) ==
    /\ proc[p].pc = "jobcard_find_customer"
    /\ UNCHANGED db
    /\ LET j == proc[p].arg IN
       IF ~oid_ok(j.customer_id)
       THEN Return(p, Resp("create_jobcard", InvalidInput, "Invalid ID format"))
       ELSE IF ~Exists(customer, j.customer_id)
       THEN Return(p, Resp("create_jobcard", NotFound, "Customer not found"))
       ELSE /\ Goto(p, IF j.technician_ids = <<>> THEN "jobcard_insert" ELSE "jobcard_check", j, 1)
            /\ UNCHANGED response

\* One turn of the loop of a handler: technician i of tech_ids is looked up and
\* counted (lines 251-260, 296-306); the loop goes on, or ends at pc `after`.
check_technician(p, op, tech_ids, job_id, after) ==
    LET i == proc[p].i
        chk == capacity_checks(op, jobcard, <<tech_ids[i]>>, job_id, 1) IN
    /\ UNCHANGED db
    /\ IF chk # Pass
       THEN Return(p, chk)
       ELSE /\ UNCHANGED response
            /\ IF i < Len(tech_ids)
               THEN proc' = [proc EXCEPT ![p].i = i + 1]
               ELSE proc' = [proc EXCEPT ![p].pc = after]

\* create_jobcard, lines 250-260.
create_jobcard_check(p) ==
    /\ proc[p].pc = "jobcard_check"
    /\ check_technician(p, "create_jobcard", proc[p].arg.technician_ids, NoneId, "jobcard_insert")

\* An insert that counts again, in one step with the write.
create_jobcard_insert_Guarded(p) ==
    /\ proc[p].pc = "jobcard_insert"
    /\ UNCHANGED <<vehicle, customer, technician, part, partsrequest, invoice, quotation,
                   inventorymovement>>
    /\ LET chk == capacity_checks("create_jobcard", jobcard, proc[p].arg.technician_ids, NoneId, 1) IN
       IF chk # Pass
       THEN UNCHANGED jobcard /\ Return(p, chk)
       ELSE /\ jobcard' = create_document(jobcard, JobCardDoc(proc[p].arg))
            /\ Goto(p, "jobcard_mark_vehicle", proc[p].arg, 0)
            /\ UNCHANGED response

\* create_jobcard, line 262.
create_jobcard_insert(p) ==
    /\ proc[p].pc = "jobcard_insert"
    /\ jobcard' = create_document(jobcard, JobCardDoc(proc[p].arg))
    /\ Goto(p, "jobcard_mark_vehicle", proc[p].arg, 0)
    /\ UNCHANGED <<vehicle, customer, technician, part, partsrequest, invoice, quotation,
                   inventorymovement, response>>

\* create_jobcard, line 264.
create_jobcard_mark_vehicle(p) ==
    /\ proc[p].pc = "jobcard_mark_vehicle"
    /\ vehicle' = SetField(vehicle, proc[p].arg.vehicle_id, "status", "in_service")
    /\ Return(p, Resp("create_jobcard", OK, "id"))
    /\ UNCHANGED <<customer, technician, part, jobcard, partsrequest, invoice, quotation,
                   inventorymovement>>

\* assign_technicians, line 295: the request arrives, the loop is entered or
\* skipped.
assign_technicians_begin(p, job_id, body) ==
    /\ proc[p].pc = "idle"
    /\ Goto(p, IF body.technician_ids = <<>> THEN "assign_update" ELSE "assign_check",
            [job_id |-> job_id, body |-> body], 1)
    /\ UNCHANGED <<db, response>>

\* assign_technicians, lines 295-306.
assign_technicians_check(p) ==
    /\ proc[p].pc = "assign_check"
    /\ check_technician(p, "assign_technicians", proc[p].arg.body.technician_ids,
                        proc[p].arg.job_id, "assign_update")

\* assign_technicians, lines 308-314.
assign_technicians_update(p) ==
    /\ proc[p].pc = "assign_update"
    /\ UNCHANGED <<vehicle, customer, technician, part, partsrequest, invoice, quotation,
                   inventorymovement>>
    /\ LET job_id == proc[p].arg.job_id
           body == proc[p].arg.body IN
       IF ~oid_ok(job_id)
       THEN UNCHANGED jobcard /\ Return(p, Resp("assign_technicians", InvalidInput, "Invalid ID format"))
       ELSE IF ~Exists(jobcard, job_id)
       THEN UNCHANGED jobcard /\ Return(p, Resp("assign_technicians", NotFound, "Job card not found"))
       ELSE /\ jobcard' = [i \in 1..Len(jobcard) |->
                             IF i = job_id THEN AssignUpdate(jobcard[i], body) ELSE jobcard[i]]
            /\ Return(p, Resp("assign_technicians", OK, "success"))

\* The vehicle and the customer of the job cards are registered beforehand.
RaceMasterData ==
    \/ /\ Len(vehicle) < MaxVehicles
       /\ \E v \in ServiceVehicleInputs : register_vehicle(v)
    \/ /\ Len(customer) < MaxCustomers
       /\ create_customer([name |-> "C"])

RaceJobCardInputs ==
    [vehicle_id : {1}, customer_id : {1}, technician_ids : {<<>>, <<1>>},
     status : {"open"}, labor : {<<>>}, parts : {<<>>}, materials : {<<>>},
     outside : {<<>>}, vat_rate : {15}]

RaceAssignInputs == [technician_ids : {<<1>>}, primary_technician_id : {NoneId}]

RaceCapNext ==
    \/ RaceMasterData
    \/ \E p \in Workers :
          \/ \E j \in RaceJobCardInputs : create_jobcard_find_vehicle(p, j)
          \/ create_jobcard_find_customer(p)
          \/ create_jobcard_check(p)
          \/ create_jobcard_insert(p) /\ Len(jobcard') <= MaxJobCards
          \/ create_jobcard_mark_vehicle(p)
          \/ \E job_id \in JobIdInputs, body \in RaceAssignInputs :
                assign_technicians_begin(p, job_id, body)
          \/ assign_technicians_check(p)
          \/ assign_technicians_update(p)

SpecRaceCap == Init /\ [][RaceCapNext]_vars

(***************************************************************************)
(* Stock written by handlers that run at the same time.  Every database    *)
(* call of a handler is one step; update_one with $inc is one call.        *)
(***************************************************************************)
\* adjust_stock: the request arrives.
adjust_stock_begin(p, part_id, adj) ==
    /\ proc[p].pc = "idle"
    /\ Goto(p, "adjust_update", [part_id |-> part_id, adj |-> adj], 0)
    /\ UNCHANGED <<db, response>>

\* An increment done as a read and a later write of the value read plus the
\* quantity.
adjust_stock_update_ReadWrite(p) ==
    /\ proc[p].pc = "adjust_update"
    /\ UNCHANGED <<vehicle, customer, technician, jobcard, partsrequest, invoice, quotation,
                   inventorymovement>>
    /\ LET a == proc[p].arg IN
       IF ~oid_ok(a.part_id)
       THEN UNCHANGED part /\ Return(p, Resp("adjust_stock", InvalidInput, "Invalid ID format"))
       ELSE IF ~Exists(part, a.part_id)
       THEN UNCHANGED part /\ Return(p, Resp("adjust_stock", NotFound, "Part not found"))
       ELSE IF "seen" \notin DOMAIN a
       THEN /\ proc' = [proc EXCEPT ![p].arg = [part_id |-> a.part_id, adj |-> a.adj,
                                                 seen |-> part[a.part_id].stock]]
            /\ UNCHANGED <<part, response>>
       ELSE /\ part' = SetField(part, a.part_id, "stock", a.seen + a.adj.quantity)
            /\ Goto(p, "adjust_move", [part_id |-> a.part_id, adj |-> a.adj], 0)
            /\ UNCHANGED response

\* adjust_stock, lines 232-234: update_one with $inc, 404 when nothing matched.
adjust_stock_update(p) ==
    /\ proc[p].pc = "adjust_update"
    /\ UNCHANGED <<vehicle, customer, technician, jobcard, partsrequest, invoice, quotation,
                   inventorymovement>>
    /\ LET a == proc[p].arg IN
       IF ~oid_ok(a.part_id)
       THEN UNCHANGED part /\ Return(p, Resp("adjust_stock", InvalidInput, "Invalid ID format"))
       ELSE IF ~Exists(part, a.part_id)
       THEN UNCHANGED part /\ Return(p, Resp("adjust_stock", NotFound, "Part not found"))
       ELSE /\ part' = IncField(part, a.part_id, "stock", a.adj.quantity)
            /\ Goto(p, "adjust_move", a, 0)
            /\ UNCHANGED response

\* adjust_stock, lines 235-237: the movement is inserted.
adjust_stock_move(p) ==
    /\ proc[p].pc = "adjust_move"
    /\ inventorymovement' = create_document(inventorymovement,
           InventoryMovementDoc(proc[p].arg.part_id, "adjust", proc[p].arg.adj.quantity,
                                NoneId, proc[p].arg.adj.reason))
    /\ Return(p, Resp("adjust_stock", OK, "success"))
    /\ UNCHANGED <<vehicle, customer, technician, part, jobcard, partsrequest, invoice,
                   quotation>>

\* update_parts_request, lines 332-334: find_one; pr is the document read.
update_parts_request_find(p, req_id, status) ==
    /\ proc[p].pc = "idle"
    /\ UNCHANGED db
    /\ IF ~oid_ok(req_id)
       THEN Return(p, Resp("update_parts_request", InvalidInput, "Invalid ID format"))
       ELSE IF ~Exists(partsrequest, req_id)
       THEN Return(p, Resp("update_parts_request", NotFound, "Parts request not found"))
       ELSE /\ Goto(p, "request_set_status",
                    [req_id |-> req_id, status |-> status, pr |-> partsrequest[req_id]], 1)
            /\ UNCHANGED response

\* update_parts_request, lines 335-336: the status is written.
update_parts_request_set_status(p) ==
    /\ proc[p].pc = "request_set_status"
    /\ partsrequest' = SetField(partsrequest, proc[p].arg.req_id, "status", proc[p].arg.status)
    /\ UNCHANGED <<vehicle, customer, technician, part, jobcard, invoice, quotation,
                   inventorymovement>>
    /\ IF proc[p].arg.status # "supplied"
       THEN Return(p, Resp("update_parts_request", OK, "success"))
       ELSE /\ proc' = [proc EXCEPT ![p].pc = IF proc[p].arg.pr.items = <<>>
                                                THEN "request_mark_job" ELSE "request_deduct"]
            /\ UNCHANGED response

\* update_parts_request, lines 338-339: one turn of the loop, one $inc.
update_parts_request_deduct(p) ==
    /\ proc[p].pc = "request_deduct"
    /\ UNCHANGED <<vehicle, customer, technician, jobcard, partsrequest, invoice, quotation,
                   inventorymovement>>
    /\ LET items == proc[p].arg.pr.items
           i == proc[p].i IN
       IF ~oid_ok(items[i].part_id)
       THEN UNCHANGED part /\ Return(p, Resp("update_parts_request", InvalidInput, "Invalid ID format"))
       ELSE /\ part' = IncField(part, items[i].part_id, "stock", -items[i].quantity)
            /\ UNCHANGED response
            /\ IF i < Len(items)
               THEN proc' = [proc EXCEPT ![p].i = i + 1]
               ELSE proc' = [proc EXCEPT ![p].pc = "request_mark_job"]

\* update_parts_request, lines 340-341: the job card is marked.
update_parts_request_mark_job(p) ==
    /\ proc[p].pc = "request_mark_job"
    /\ jobcard' = SetField(jobcard, proc[p].arg.pr.job_card_id, "status", "in_progress")
    /\ Return(p, Resp("update_parts_request", OK, "success"))
    /\ UNCHANGED <<vehicle, customer, technician, part, partsrequest, invoice, quotation,
                   inventorymovement>>

\* The first line from i on that the sale deducts (line 491), or Len + 1.
RECURSIVE NextSaleLine(_, _)
NextSaleLine(items, i) ==
    IF i > Len(items) THEN i
    ELSE IF items[i].item_type = "part" /\ HasRef(items[i]) THEN i
    ELSE NextSaleLine(items, i + 1)

\* pay_invoice, lines 465-490: find_one, the total, the payments validated.
pay_invoice_find(p, inv_id, body) ==
    /\ proc[p].pc = "idle"
    /\ UNCHANGED db
    /\ IF ~oid_ok(inv_id)
       THEN Return(p, Resp("pay_invoice", InvalidInput, "Invalid ID format"))
       ELSE IF ~Exists(invoice, inv_id)
       THEN Return(p, Resp("pay_invoice", NotFound, "Invoice not found"))
       ELSE LET inv == invoice[inv_id]
                due == total_due(inv)
                payload == payments_payload(body, due)
                valid == _validate_payments(payload, due, 1) IN
            IF valid # "ok"
            THEN Return(p, Resp("pay_invoice", InvalidInput, valid))
            ELSE /\ UNCHANGED response
                 /\ LET first == IF sale_applies(inv) THEN NextSaleLine(inv.items, 1)
                                 ELSE Len(inv.items) + 1 IN
                    Goto(p, IF first <= Len(inv.items) THEN "pay_line" ELSE "pay_update",
                         [inv_id |-> inv_id, body |-> body, inv |-> inv, payload |-> payload],
                         first)

\* pay_invoice, line 492: the $inc of one line.
pay_invoice_line(p) ==
    /\ proc[p].pc = "pay_line"
    /\ UNCHANGED <<vehicle, customer, technician, jobcard, partsrequest, invoice, quotation,
                   inventorymovement>>
    /\ LET it == proc[p].arg.inv.items[proc[p].i] IN
       IF ~oid_ok(it.ref_id)
       THEN UNCHANGED part /\ Return(p, Resp("pay_invoice", InvalidInput, "Invalid ID format"))
       ELSE /\ part' = IncField(part, it.ref_id, "stock", -sold_quantity(it))
            /\ proc' = [proc EXCEPT ![p].pc = "pay_move"]
            /\ UNCHANGED response

\* pay_invoice, lines 493-494: the movement of that line.
pay_invoice_move(p) ==
    /\ proc[p].pc = "pay_move"
    /\ UNCHANGED <<vehicle, customer, technician, part, jobcard, partsrequest, invoice,
                   quotation, response>>
    /\ LET a == proc[p].arg
           it == a.inv.items[proc[p].i]
           next == NextSaleLine(a.inv.items, proc[p].i + 1) IN
       /\ inventorymovement' = create_document(inventorymovement,
              InventoryMovementDoc(it.ref_id, "out", sold_quantity(it), a.inv_id, "parts sale"))
       /\ Goto(p, IF next <= Len(a.inv.items) THEN "pay_line" ELSE "pay_update", a, next)

\* pay_invoice, lines 496-509: the invoice is set paid.
pay_invoice_update(p) ==
    /\ proc[p].pc = "pay_update"
    /\ UNCHANGED <<vehicle, customer, technician, part, jobcard, partsrequest, quotation,
                   inventorymovement>>
    /\ LET a == proc[p].arg IN
       /\ invoice' = [i \in 1..Len(invoice) |->
                        IF i = a.inv_id THEN PaidDoc(invoice[i], a.body, a.payload)
                        ELSE invoice[i]]
       /\ Return(p, Resp("pay_invoice", OK, "success"))

\* A part, a parts sale of it and a parts request for it, with or without a
\* malformed reference after the first item.
RaceStockAdjustInputs == [quantity : {2}, reason : {NoneStr}]

\* The stock the part is created with, and the range explored around it.
SeededStock == (CHOOSE pt \in StockPartInputs : TRUE).stock

StockWithin(parts) ==
    \A i \in 1..Len(parts) :
       parts[i].stock >= -MaxShortfall /\ parts[i].stock <= SeededStock + MaxShortfall

RaceStockRequestInputs ==
    [job_card_id : {1},
     items : {<<PartItem(1, 1)>>, <<PartItem(1, 1), PartItem(BadId, 1)>>},
     status : {"requested"}]

\* The documents of the requests, one of each kind, are stored while no
\* request is served.
AllIdle == \A p \in Workers : proc[p] = Idle

RaceStockNext ==
    \/ /\ AllIdle /\ vehicle = <<>>
       /\ \E v \in ServiceVehicleInputs : register_vehicle(v)
    \/ /\ AllIdle /\ customer = <<>>
       /\ create_customer([name |-> "C"])
    \/ /\ AllIdle /\ part = <<>>
       /\ \E pt \in StockPartInputs : create_part(pt)
    \/ /\ AllIdle /\ jobcard = <<>>
       /\ \E j \in InventoryJobCardInputs : create_jobcard(j)
    \/ /\ AllIdle /\ partsrequest = <<>>
       /\ \E req \in RaceStockRequestInputs : create_parts_request(req)
    \/ /\ AllIdle /\ invoice = <<>>
       /\ create_invoice(Invoice("parts", ShortSale))
    \/ \E p \in Workers :
          \/ \E adj \in RaceStockAdjustInputs : adjust_stock_begin(p, 1, adj)
          \/ adjust_stock_update(p) /\ StockWithin(part')
          \/ adjust_stock_move(p) /\ Len(inventorymovement') <= MaxMovements
          \/ update_parts_request_find(p, 1, "supplied")
          \/ update_parts_request_set_status(p)
          \/ update_parts_request_deduct(p) /\ StockWithin(part')
          \/ update_parts_request_mark_job(p)
          \/ pay_invoice_find(p, 1, LegacyPay)
          \/ pay_invoice_line(p) /\ StockWithin(part')
          \/ pay_invoice_move(p) /\ Len(inventorymovement') <= MaxMovements
          \/ pay_invoice_update(p)

SpecRaceStock == Init /\ [][RaceStockNext]_vars

(***************************************************************************)
(* Technician capacity (claims C1, C2, C3).                                *)
(***************************************************************************)
\* The job cards that count against technician t.
OpenCardsOf(t) ==
    {i \in 1..Len(jobcard) :
        /\ jobcard[i].status \in {"open", "in_progress", "waiting_parts"}
        /\ \E k \in 1..Len(jobcard[i].technician_ids) : jobcard[i].technician_ids[k] = t}

CapOf(t) == IF "capacity" \in DOMAIN technician[t] THEN technician[t].capacity ELSE 3

Full(t) == Cardinality(OpenCardsOf(t)) >= CapOf(t)

ListedTechs(ids) == {ids[k] : k \in 1..Len(ids)}

AllTechsExist(ids) == \A t \in ListedTechs(ids) : t \in 1..Len(technician)

CreateWellFormed(j) ==
    /\ j.vehicle_id \in 1..Len(vehicle)
    /\ j.customer_id \in 1..Len(customer)
    /\ AllTechsExist(j.technician_ids)

\* C1: a technician on capacity-many open/in_progress/waiting_parts job cards
\* cannot be put on one more: create_jobcard listing the technician, and
\* assign_technicians adding the technician to a job card that is not one of
\* those, fail (with Conflict when the request is otherwise well formed) and
\* persist nothing; once no listed technician is at capacity (one of the job
\* cards was closed) the same request succeeds and the job card lists them.
C1_AtCapacityRejected ==
    [][ /\ \A j \in JobCardInputs :
             (response'.op = "create_jobcard" /\ create_jobcard(j)) =>
               LET full == {t \in ListedTechs(j.technician_ids) \cap 1..Len(technician) : Full(t)} IN
               /\ full # {} => response'.code # OK /\ UNCHANGED db
               /\ (CreateWellFormed(j) /\ full # {}) => response'.code = Conflict
               /\ (CreateWellFormed(j) /\ full = {}) =>
                     /\ response'.code = OK
                     /\ Len(jobcard') = Len(jobcard) + 1
                     /\ jobcard'[Len(jobcard')].technician_ids = j.technician_ids
                     /\ jobcard'[Len(jobcard')].status = j.status
        /\ \A job_id \in JobIdInputs, body \in AssignInputs :
             (response'.op = "assign_technicians" /\ assign_technicians(job_id, body)) =>
               LET full == {t \in ListedTechs(body.technician_ids) \cap 1..Len(technician) :
                              Full(t) /\ job_id \notin OpenCardsOf(t)} IN
               /\ full # {} => response'.code # OK /\ UNCHANGED db
               /\ (AllTechsExist(body.technician_ids) /\ full # {}) => response'.code = Conflict
               /\ ( /\ AllTechsExist(body.technician_ids)
                    /\ job_id \in 1..Len(jobcard)
                    /\ \A t \in ListedTechs(body.technician_ids) : ~Full(t) ) =>
                     /\ response'.code = OK
                     /\ jobcard'[job_id].technician_ids = body.technician_ids
      ]_vars

\* A technician at capacity was refused on another job card, while a closed
\* job card of that technician exists.
C1_Witness ==
    /\ response.op \in {"create_jobcard", "assign_technicians"}
    /\ response.code = Conflict
    /\ \E t \in 1..Len(technician) :
          /\ Cardinality(OpenCardsOf(t)) = CapOf(t)
          /\ \E i \in 1..Len(jobcard) :
                jobcard[i].status = "closed" /\ t \in ListedTechs(jobcard[i].technician_ids)

\* C2: for every technician, the number of open/in_progress/waiting_parts job
\* cards that list the technician never exceeds the technician's capacity.
C2_CapacityNeverExceeded ==
    \A t \in 1..Len(technician) : Cardinality(OpenCardsOf(t)) <= CapOf(t)

\* C7: the capacity check is read-then-write with no atomic guard: a handler
\* that has passed its capacity checks writes whatever the job cards are by
\* then (create_jobcard inserts its job card, assign_technicians sets the
\* technician list); so two overlapping requests for a technician with one
\* free slot leave the technician on more open-like job cards than capacity.
C7_WriteUnguarded ==
    [][ \A p \in Workers :
          /\ proc[p].pc = "jobcard_insert" /\ proc'[p] # proc[p] =>
                /\ jobcard' = Append(jobcard, JobCardDoc(proc[p].arg))
                /\ proc'[p].pc = "jobcard_mark_vehicle"
          /\ (proc[p].pc = "assign_update" /\ proc'[p] # proc[p]
                /\ proc[p].arg.job_id \in 1..Len(jobcard)) =>
                /\ response'.code = OK
                /\ jobcard'[proc[p].arg.job_id].technician_ids = proc[p].arg.body.technician_ids
      ]_vars

\* No handler is running and a technician is on more open-like job cards
\* than capacity.
C7_Witness ==
    /\ \A p \in Workers : proc[p].pc = "idle"
    /\ \E t \in 1..Len(technician) : Cardinality(OpenCardsOf(t)) > CapOf(t)

\* C3: assign_technicians on job card J counts only the other job cards: it is
\* refused with Conflict exactly when some listed technician is on
\* capacity-many open-like job cards other than J; so a technician exactly at
\* capacity with J among them is re-listed on J, and refused on any job card
\* that is not among them.
C3_ExcludesOwnJobCard ==
    [][ \A job_id \in JobIdInputs, body \in AssignInputs :
          ( /\ response'.op = "assign_technicians"
            /\ assign_technicians(job_id, body)
            /\ AllTechsExist(body.technician_ids)
            /\ job_id \in 1..Len(jobcard) ) =>
              LET over == {t \in ListedTechs(body.technician_ids) :
                             Cardinality(OpenCardsOf(t) \ {job_id}) >= CapOf(t)} IN
              /\ over # {} => response'.code = Conflict /\ UNCHANGED db
              /\ over = {} =>
                    /\ response'.code = OK
                    /\ jobcard'[job_id].technician_ids = body.technician_ids
              /\ \A t \in ListedTechs(body.technician_ids) :
                    (Cardinality(OpenCardsOf(t)) = CapOf(t) /\ job_id \in OpenCardsOf(t)
                       /\ ListedTechs(body.technician_ids) = {t})
                      => response'.code = OK
      ]_vars

\* A job card was reassigned successfully and one of its technicians is exactly
\* at capacity, this job card included.
C3_Witness ==
    /\ response.op = "assign_technicians"
    /\ response.code = OK
    /\ \E t \in 1..Len(technician), j \in 1..Len(jobcard) :
          /\ j \in OpenCardsOf(t)
          /\ Cardinality(OpenCardsOf(t)) = CapOf(t)
          /\ Len(jobcard) > 1

(***************************************************************************)
(* Parts requests (claims C8, C9, C10).                                    *)
(***************************************************************************)
\* Every field of every job card but the status of job card j is as before.
OnlyStatusOf(j, cards, cards2) ==
    /\ Len(cards2) = Len(cards)
    /\ \A i \in 1..Len(cards) :
          IF i = j THEN [cards2[i] EXCEPT !.status = cards[i].status] = cards[i]
          ELSE cards2[i] = cards[i]

\* C8: create_parts_request against an existing job card J persists one parts
\* request and sets J's status to "waiting_parts" whatever it was before (and
\* nothing else of any job card changes); against a job card that does not
\* exist it fails with NotFound (InvalidInput when the identifier is
\* malformed), persists no request and changes no job card.
C8_CreatePartsRequest ==
    [][ \A req \in PartsRequestInputs :
          create_parts_request(req) =>
            IF req.job_card_id \in 1..Len(jobcard)
            THEN /\ response'.code = OK
                 /\ partsrequest' = Append(partsrequest, req)
                 /\ jobcard'[req.job_card_id].status = "waiting_parts"
                 /\ OnlyStatusOf(req.job_card_id, jobcard, jobcard')
            ELSE /\ response'.code = (IF req.job_card_id = BadId THEN InvalidInput ELSE NotFound)
                 /\ partsrequest' = partsrequest
                 /\ jobcard' = jobcard
      ]_vars

\* A parts request was just created, with a second job card in the database:
\* the job card of the request is waiting for parts.
C8_Witness ==
    /\ response.op = "create_parts_request"
    /\ response.code = OK
    /\ partsrequest # <<>>
    /\ Len(jobcard) = 2
    /\ jobcard[partsrequest[Len(partsrequest)].job_card_id].status = "waiting_parts"

\* The quantity the items of a request ask of part p, all its lines summed.
RECURSIVE Requested(_, _, _)
Requested(items, p, i) ==
    IF i > Len(items) THEN 0
    ELSE (IF items[i].part_id = p THEN items[i].quantity ELSE 0) + Requested(items, p, i + 1)

\* C9: update_parts_request on an existing request: to "supplied", the stock of
\* every part the items reference goes down by the quantity asked of it and the
\* parent job card becomes "in_progress"; to "approved" or "rejected", stock
\* and job cards are unchanged and only the request's status changes; on a
\* request that does not exist it fails with NotFound and changes nothing.
C9_UpdatePartsRequest ==
    [][ \A req_id \in PartsRequestIdInputs, st \in PartsRequestStatusInputs :
          update_parts_request(req_id, st) =>
            IF req_id \in 1..Len(partsrequest)
            THEN /\ partsrequest' = [partsrequest EXCEPT ![req_id].status = st]
                 /\ IF st = "supplied"
                    THEN /\ Len(part') = Len(part)
                         /\ \A p \in 1..Len(part) :
                               part'[p].stock =
                                 part[p].stock - Requested(partsrequest[req_id].items, p, 1)
                         /\ jobcard'[partsrequest[req_id].job_card_id].status = "in_progress"
                    ELSE part' = part /\ jobcard' = jobcard
            ELSE /\ response'.code = NotFound
                 /\ UNCHANGED db
      ]_vars

\* C10: when a parts request reaches "supplied", an InventoryMovement of type
\* "out" is appended for the stock deducted: a step of update_parts_request
\* that changes stock appends a movement.
C10_SupplyAppendsMovement ==
    [][ \A req_id \in PartsRequestIdInputs, st \in PartsRequestStatusInputs :
          (update_parts_request(req_id, st) /\ part' # part) =>
            /\ Len(inventorymovement') > Len(inventorymovement)
            /\ inventorymovement'[Len(inventorymovement')].movement_type = "out"
      ]_vars

(***************************************************************************)
(* Uniqueness of VIN and SKU (claims C4, C5, C6).                          *)
(***************************************************************************)
\* q occurs in s, letter for letter.
IsSubstring(q, s) ==
    \E i \in 0..(Len(s) - Len(q)) : \A k \in 1..Len(q) : s[i + k] = q[k]

NoDuplicateVin ==
    \A i, k \in 1..Len(vehicle) : i # k => vehicle[i].vin # vehicle[k].vin

NoDuplicateSku ==
    \A i, k \in 1..Len(part) : i # k => part[i].sku # part[k].sku

\* C4: requests served one at a time: register_vehicle with the VIN of an
\* existing vehicle fails with Conflict and inserts nothing; with a new VIN (of
\* the 5 characters a VIN has at least) it inserts exactly one vehicle, of
\* status in_stock; search_vehicles with a piece of a vehicle's VIN returns
\* the vehicle; no two vehicles share a VIN.
C4_VinUnique ==
    /\ [][ /\ \A v \in CatalogVehicleInputs :
                (response'.op = "register_vehicle" /\ register_vehicle(v)) =>
                  IF \E i \in 1..Len(vehicle) : vehicle[i].vin = v.vin
                  THEN response'.code = Conflict /\ vehicle' = vehicle
                  ELSE IF Len(v.vin) >= 5
                  THEN /\ response'.code = OK
                       /\ Len(vehicle') = Len(vehicle) + 1
                       /\ SubSeq(vehicle', 1, Len(vehicle)) = vehicle
                       /\ vehicle'[Len(vehicle')].vin = v.vin
                       /\ vehicle'[Len(vehicle')].status = "in_stock"
                  ELSE response'.code # OK /\ vehicle' = vehicle
           /\ \A q \in VehicleQueryInputs :
                (response'.op = "search_vehicles" /\ search_vehicles(q)) =>
                  /\ vehicle' = vehicle
                  /\ \A i \in 1..Len(vehicle) :
                        (q # NoneText /\ IsSubstring(q, vehicle[i].vin))
                          => \E k \in 1..Len(response'.result) : response'.result[k] = i
         ]_vars
    /\ []NoDuplicateVin

\* A search has returned the second of two vehicles and not the first.
C4_Witness ==
    /\ response.op = "search_vehicles"
    /\ Len(vehicle) = 2
    /\ response.result = <<2>>

C6_InsertUnguarded ==
    [][ \A p \in Workers :
          /\ (proc[p].pc = "vehicle_insert" /\ proc'[p].pc = "idle") =>
                /\ response'.code = OK
                /\ vehicle' = Append(vehicle, VehicleDoc(proc[p].arg))
          /\ (proc[p].pc = "part_insert" /\ proc'[p].pc = "idle") =>
                /\ response'.code = OK
                /\ part' = Append(part, proc[p].arg)
      ]_vars

\* Two vehicles share a VIN and two parts share a SKU.
C6_Witness ==
    /\ ~NoDuplicateVin
    /\ ~NoDuplicateSku

(***************************************************************************)
(* Stock and inventory movements.                                          *)
(***************************************************************************)
\* The stock of some existing part differs after the step.
StockChanged ==
    \/ Len(part') < Len(part)
    \/ \E k \in 1..Len(part) : part'[k].stock # part[k].stock

\* C11: a part's stock changes only through adjust_stock, update_parts_request
\* with new status "supplied", and pay_invoice on an invoice whose source is
\* "parts"; every other operation, pay_invoice on an invoice of another source
\* included, leaves the stock of every existing part as it was.
C11_StockPaths ==
    [][ StockChanged =>
          \/ /\ response'.op = "adjust_stock"
             /\ \E part_id \in 1..Len(part), adj \in InventoryAdjustInputs :
                   adjust_stock(part_id, adj)
          \/ /\ response'.op = "update_parts_request"
             /\ \E req_id \in 1..Len(partsrequest) : update_parts_request(req_id, "supplied")
          \/ /\ response'.op = "pay_invoice"
             /\ \E inv_id \in 1..Len(invoice) :
                   invoice[inv_id].source = "parts" /\ pay_invoice(inv_id, LegacyPay)
      ]_vars

\* An invoice that is not a parts sale, with part lines, was paid: nothing
\* moved and the stock is as the parts were created.
C11_Witness ==
    /\ response.op = "pay_invoice"
    /\ response.code = OK
    /\ invoice[1].source # "parts"
    /\ invoice[1].status = "paid"
    /\ \E i \in 1..Len(invoice[1].items) :
          invoice[1].items[i].item_type = "part" /\ invoice[1].items[i].ref_id \in 1..Len(part)
    /\ inventorymovement = <<>>
    /\ part # <<>>

\* C12: adjust_stock on an existing part with signed delta d changes that
\* part's stock by exactly d, below zero included, and appends exactly one
\* InventoryMovement of type "adjust" with quantity d; on a part that does not
\* exist it fails with NotFound, changes no stock and appends no movement.
C12_AdjustStock ==
    [][ \A part_id \in StockPartIds, adj \in StockAdjustInputs :
          (response'.op = "adjust_stock" /\ adjust_stock(part_id, adj)) =>
             IF part_id \in 1..Len(part)
             THEN /\ response'.code = OK
                  /\ Len(part') = Len(part)
                  /\ part'[part_id] = [part[part_id] EXCEPT !.stock = @ + adj.quantity]
                  /\ \A k \in 1..Len(part) : k # part_id => part'[k] = part[k]
                  /\ Len(inventorymovement') = Len(inventorymovement) + 1
                  /\ SubSeq(inventorymovement', 1, Len(inventorymovement)) = inventorymovement
                  /\ LET m == inventorymovement'[Len(inventorymovement')] IN
                        /\ m.movement_type = "adjust"
                        /\ m.quantity = adj.quantity
                        /\ m.part_id = part_id
             ELSE /\ response'.code = NotFound
                  /\ UNCHANGED <<part, inventorymovement>>
      ]_vars

\* An adjustment by a negative delta left a part with negative stock, and is
\* the last movement.
C12_Witness ==
    /\ response.op = "adjust_stock"
    /\ response.code = OK
    /\ inventorymovement # <<>>
    /\ LET m == inventorymovement[Len(inventorymovement)] IN
          /\ m.movement_type = "adjust"
          /\ m.quantity < 0
          /\ m.part_id \in 1..Len(part)
          /\ part[m.part_id].stock < 0

\* The part lines with a reference, in order.
RefLines(items) == SelectSeq(items, LAMBDA it : it.item_type = "part" /\ it.ref_id # NoneId)

\* The quantity of part p that the lines from i on sell.
RECURSIVE Sold(_, _, _)
Sold(lines, p, i) ==
    IF i > Len(lines) THEN 0
    ELSE (IF lines[i].ref_id = p THEN lines[i].quantity ELSE 0) + Sold(lines, p, i + 1)

\* C14: a successful pay_invoice on an invoice whose source is "parts"
\* decreases, for every line of type "part" that carries a reference, the
\* referenced part's stock by the line's quantity, and appends exactly one
\* InventoryMovement of type "out" per such line, with reference the invoice
\* id; the other lines change no stock and append no movement.
C14_PartsSale ==
    [][ \A inv_id \in 1..Len(invoice) :
          ( /\ response'.op = "pay_invoice"
            /\ response'.code = OK
            /\ pay_invoice(inv_id, LegacyPay)
            /\ invoice[inv_id].source = "parts" ) =>
             LET lines == RefLines(invoice[inv_id].items)
                 n == Len(inventorymovement) IN
             /\ Len(part') = Len(part)
             /\ \A k \in 1..Len(part) :
                   part'[k] = [part[k] EXCEPT !.stock = @ - Sold(lines, k, 1)]
             /\ Len(inventorymovement') = n + Len(lines)
             /\ SubSeq(inventorymovement', 1, n) = inventorymovement
             /\ \A i \in 1..Len(lines) :
                   /\ inventorymovement'[n + i].movement_type = "out"
                   /\ inventorymovement'[n + i].part_id = lines[i].ref_id
                   /\ inventorymovement'[n + i].quantity = lines[i].quantity
                   /\ inventorymovement'[n + i].reference = inv_id
      ]_vars

\* A parts sale with a labor line, a part line without a reference and a
\* part sold on two lines was paid: one movement for each of the three part
\* lines with a reference, one of a part that does not exist.
C14_Witness ==
    /\ response.op = "pay_invoice"
    /\ response.code = OK
    /\ invoice[1].source = "parts"
    /\ invoice[1].status = "paid"
    /\ invoice[1].items = SaleItems
    /\ Len(part) = 1
    /\ Len(inventorymovement) = 3
    /\ \A i \in 1..3 : inventorymovement[i].movement_type = "out"

(***************************************************************************)
(* Payments and invoice totals.                                            *)
(***************************************************************************)
\* The payment list has an amount that is not strictly positive, or a
\* payment by bank transfer, cheque or account without a non-empty reference.
SomePaymentInvalid(payments) ==
    \E i \in 1..Len(payments) :
       \/ payments[i].amount <= 0
       \/ payments[i].method \in {"bank_transfer", "cheque", "account"}
             /\ payments[i].reference \in {NoneStr, ""}

\* The sum of the amounts, in cents.
PaidSum(payments) == SumAmounts(payments, 1)

\* C13: pay_invoice on an existing invoice with an explicit payment list is
\* rejected with InvalidInput, the invoice, every stock and the movements
\* unchanged, if a payment amount is not strictly positive, or a payment by
\* bank_transfer, cheque or account has no non-empty reference, or the sum of
\* the amounts is below total_due; otherwise (overpayment included) it
\* succeeds, the invoice is "paid" and records exactly the supplied payments.
C13_PaymentValidation ==
    [][ \A inv_id \in 1..Len(invoice), body \in ExplicitPayInputs :
          (response'.op = "pay_invoice" /\ pay_invoice(inv_id, body)) =>
             IF \/ SomePaymentInvalid(body.payments)
                \/ PaidSum(body.payments) < list_totals(invoice[inv_id]).total
             THEN /\ response'.code = InvalidInput
                  /\ UNCHANGED <<invoice, part, inventorymovement>>
             ELSE /\ response'.code = OK
                  /\ invoice'[inv_id].status = "paid"
                  /\ invoice'[inv_id].payments = body.payments
      ]_vars

C16_QuotationToInvoice ==
    [][ \A qid \in 1..MaxDocuments :
          (response'.op = "quotation_to_invoice" /\ quotation_to_invoice(qid)) =>
             IF qid \in 1..Len(quotation)
             THEN /\ response'.code = OK
                  /\ Len(invoice') = Len(invoice) + 1
                  /\ SubSeq(invoice', 1, Len(invoice)) = invoice
                  /\ LET inv == invoice'[Len(invoice')]
                         Q == quotation[qid] IN
                        /\ inv.source = "quotation"
                        /\ inv.source_id = qid
                        /\ inv.customer_id = Q.customer_id
                        /\ inv.items = Q.items
                        /\ inv.vat_rate = Q.vat_rate
                        /\ inv.status = "pending"
                  /\ quotation' = [i \in 1..Len(quotation) |->
                                     IF i = qid THEN [quotation[i] EXCEPT !.status = "invoiced"]
                                     ELSE quotation[i]]
             ELSE /\ response'.code = NotFound
                  /\ UNCHANGED db
      ]_vars

\* An accepted quotation at a VAT rate that is not the default was converted:
\* it is invoiced and the invoice carries its items and rate.
C16_Witness ==
    /\ response.op = "quotation_to_invoice"
    /\ response.code = OK
    /\ quotation # <<>> /\ invoice # <<>>
    /\ quotation[1].status = "invoiced"
    /\ quotation[1].vat_rate # DefaultVatRate
    /\ invoice[Len(invoice)].source = "quotation"
    /\ invoice[Len(invoice)].vat_rate = quotation[1].vat_rate
    /\ invoice[Len(invoice)].items = quotation[1].items

\* C17: jobcard_prepare_invoice on an existing job card creates one invoice
\* with source "job_card", the job card's customer and VAT rate and exactly
\* one line per embedded item, in the order labor, parts, materials, outside
\* work: a labor line has quantity 1 and unit price flat_hours * rate -
\* discount, a part line the part reference, quantity, price and discount, a
\* material or outside-work line quantity 1 and unit price = cost; the job
\* card's status becomes "ready".  On a job card that does not exist it fails
\* with NotFound and creates nothing.
C17_PrepareInvoice ==
    [][ \A job_id \in 1..MaxDocuments :
          (response'.op = "jobcard_prepare_invoice" /\ jobcard_prepare_invoice(job_id)) =>
             IF job_id \in 1..Len(jobcard)
             THEN LET jc == jobcard[job_id]
                      inv == invoice'[Len(invoice')]
                      nl == Len(jc.labor)
                      np == Len(jc.parts)
                      nm == Len(jc.materials)
                      no == Len(jc.outside) IN
                  /\ response'.code = OK
                  /\ Len(invoice') = Len(invoice) + 1
                  /\ SubSeq(invoice', 1, Len(invoice)) = invoice
                  /\ inv.source = "job_card"
                  /\ inv.customer_id = jc.customer_id
                  /\ inv.vat_rate = jc.vat_rate
                  /\ Len(inv.items) = nl + np + nm + no
                  /\ \A i \in 1..nl :
                        /\ inv.items[i].item_type = "labor"
                        /\ inv.items[i].quantity = 1
                        /\ inv.items[i].unit_price =
                              jc.labor[i].flat_hours * jc.labor[i].rate - jc.labor[i].discount
                  /\ \A i \in 1..np :
                        /\ inv.items[nl + i].item_type = "part"
                        /\ inv.items[nl + i].ref_id = jc.parts[i].part_id
                        /\ inv.items[nl + i].quantity = jc.parts[i].quantity
                        /\ inv.items[nl + i].unit_price = jc.parts[i].price
                        /\ inv.items[nl + i].discount = jc.parts[i].discount
                  /\ \A i \in 1..nm :
                        /\ inv.items[nl + np + i].item_type = "material"
                        /\ inv.items[nl + np + i].quantity = 1
                        /\ inv.items[nl + np + i].unit_price = jc.materials[i].cost
                  /\ \A i \in 1..no :
                        /\ inv.items[nl + np + nm + i].item_type = "outside"
                        /\ inv.items[nl + np + nm + i].quantity = 1
                        /\ inv.items[nl + np + nm + i].unit_price = jc.outside[i].cost
                  /\ jobcard' = [i \in 1..Len(jobcard) |->
                                   IF i = job_id THEN [jobcard[i] EXCEPT !.status = "ready"]
                                   ELSE jobcard[i]]
             ELSE /\ response'.code = NotFound
                  /\ UNCHANGED db
      ]_vars

\* The invoice of a job card with labor, a part, a material and outside work
\* was prepared: five lines, the job card ready.
C17_Witness ==
    /\ response.op = "jobcard_prepare_invoice"
    /\ response.code = OK
    /\ invoice # <<>> /\ jobcard # <<>>
    /\ jobcard[1].status = "ready"
    /\ jobcard[1].labor # <<>>
    /\ invoice[Len(invoice)].source = "job_card"
    /\ Len(invoice[Len(invoice)].items) = 5

(***************************************************************************)
(* Malformed identifiers.                                                  *)
(***************************************************************************)
\* The request was refused as an invalid id and no record changed.
RefusedUntouched == response'.code = InvalidInput /\ UNCHANGED db

\* C18: a request that carries an identifier that is not a well-formed id is
\* answered 400 before any domain logic runs, so it changes no persisted
\* record; this holds for an identifier in the path or body of every
\* operation, for a malformed part reference in the items of the parts
\* request that update_parts_request supplies, and for a malformed ref_id in
\* the lines of the parts invoice that pay_invoice settles.
C18_MalformedIdRejected ==
    [][ /\ \A j \in IdsJobCardInputs :
             ( /\ response'.op = "create_jobcard" /\ create_jobcard(j)
               /\ \/ j.vehicle_id = BadId
                  \/ /\ Exists(vehicle, j.vehicle_id) /\ Exists(customer, j.customer_id)
                     /\ BadId \in Range(j.technician_ids) ) => RefusedUntouched
        /\ \A req \in IdsRequestInputs :
             ( /\ response'.op = "create_parts_request" /\ create_parts_request(req)
               /\ req.job_card_id = BadId ) => RefusedUntouched
        /\ \A body \in IdsAssignInputs :
             (response'.op = "assign_technicians" /\ assign_technicians(BadId, body))
                => RefusedUntouched
        /\ \A adj \in InventoryAdjustInputs :
             (response'.op = "adjust_stock" /\ adjust_stock(BadId, adj)) => RefusedUntouched
        /\ (response'.op = "update_vehicle_status" /\ update_vehicle_status(BadId, IdsVehicleUpdate))
              => RefusedUntouched
        /\ (response'.op = "set_jobcard_status" /\ set_jobcard_status(BadId, "closed"))
              => RefusedUntouched
        /\ (response'.op = "jobcard_prepare_invoice" /\ jobcard_prepare_invoice(BadId))
              => RefusedUntouched
        /\ (response'.op = "quotation_to_invoice" /\ quotation_to_invoice(BadId))
              => RefusedUntouched
        /\ \A req_id \in IdInputs :
             ( /\ response'.op = "update_parts_request" /\ update_parts_request(req_id, "supplied")
               /\ \/ req_id = BadId
                  \/ /\ req_id \in 1..Len(partsrequest)
                     /\ \E i \in 1..Len(partsrequest[req_id].items) :
                           partsrequest[req_id].items[i].part_id = BadId ) => RefusedUntouched
        /\ \A inv_id \in IdInputs :
             ( /\ response'.op = "pay_invoice" /\ pay_invoice(inv_id, LegacyPay)
               /\ \/ inv_id = BadId
                  \/ /\ inv_id \in 1..Len(invoice)
                     /\ invoice[inv_id].source = "parts"
                     /\ \E i \in 1..Len(invoice[inv_id].items) :
                           /\ invoice[inv_id].items[i].item_type = "part"
                           /\ invoice[inv_id].items[i].ref_id = BadId ) => RefusedUntouched
      ]_vars

(***************************************************************************)
(* Vehicles and job cards (claims C19, C20).                               *)
(***************************************************************************)
\* C19: create_jobcard is all-or-nothing: when the vehicle or the customer
\* does not exist, or a listed technician does not exist or is at capacity,
\* it fails with NotFound or Conflict, no job card is persisted and no
\* vehicle changes; when every pre-check passes the job card is persisted as
\* posted and the linked vehicle's status becomes "in_service" whatever it
\* was before, nothing else changing.
C19_CreateJobCardAllOrNothing ==
    [][ \A j \in FleetJobCardInputs :
          (response'.op = "create_jobcard" /\ create_jobcard(j)) =>
            LET full == {t \in ListedTechs(j.technician_ids) \cap 1..Len(technician) : Full(t)} IN
            /\ ~CreateWellFormed(j) => response'.code = NotFound /\ UNCHANGED db
            /\ (CreateWellFormed(j) /\ full # {}) => response'.code = Conflict /\ UNCHANGED db
            /\ (CreateWellFormed(j) /\ full = {}) =>
                 /\ response'.code = OK
                 /\ Len(jobcard') = Len(jobcard) + 1
                 /\ \A i \in 1..Len(jobcard) : jobcard'[i] = jobcard[i]
                 /\ LET card == jobcard'[Len(jobcard')] IN
                    /\ card.vehicle_id = j.vehicle_id
                    /\ card.customer_id = j.customer_id
                    /\ card.technician_ids = j.technician_ids
                    /\ card.status = j.status
                 /\ Len(vehicle') = Len(vehicle)
                 /\ \A i \in 1..Len(vehicle) :
                      /\ vehicle'[i].status =
                            IF i = j.vehicle_id THEN "in_service" ELSE vehicle[i].status
                      /\ vehicle'[i].vin = vehicle[i].vin
                      /\ vehicle'[i].location = vehicle[i].location
                 /\ UNCHANGED <<customer, technician, part, partsrequest, invoice, quotation,
                                inventorymovement>>
      ]_vars

\* A job card was created for a vehicle that a direct update had moved (its
\* location is the updated one) while the other vehicle stays sold, and a
\* second job card exists.
C19_Witness ==
    /\ response.op = "create_jobcard"
    /\ response.code = OK
    /\ Len(jobcard) = 2
    /\ Len(vehicle) = 2
    /\ \E v \in 1..2 :
          /\ jobcard[2].vehicle_id = v
          /\ vehicle[v].status = "in_service"
          /\ vehicle[v].location = <<"Y">>
          /\ vehicle[3 - v].status = "sold"

\* C20: every vehicle's status is one of in_stock, reserved, sold and
\* in_service after any sequence of register_vehicle, update_vehicle_status
\* and create_jobcard requests.
C20_VehicleStatusDeclared ==
    \A i \in 1..Len(vehicle) : vehicle[i].status \in VehicleStatus

(***************************************************************************)
(* Payment without a payment list (claim C23).                             *)
(***************************************************************************)
\* The method of the fallback payment: the one supplied, "cash" when none is.
FallbackMethod(body) == IF body.method \in {NoneStr, ""} THEN "cash" ELSE body.method

\* C23: pay_invoice with no explicit payments validates the fallback payment
\* (the supplied method or "cash", the whole total due, no reference) like
\* an explicit one: when the total due is strictly positive and the method
\* is none of bank_transfer, cheque, account the request succeeds, the
\* invoice is paid and records exactly that payment; when the method is one
\* of the three or the total due is not strictly positive the request is
\* refused with InvalidInput and nothing changes.
C23_FallbackPayment ==
    [][ \A inv_id \in InvoiceIdInputs, body \in LegacyPayInputs :
          ( /\ response'.op = "pay_invoice"
            /\ inv_id \in 1..Len(invoice)
            /\ pay_invoice(inv_id, body) ) =>
            LET due == total_due(invoice[inv_id]) IN
            IF due > 0 /\ FallbackMethod(body) \notin {"bank_transfer", "cheque", "account"}
            THEN /\ response'.code = OK
                 /\ invoice'[inv_id].status = "paid"
                 /\ invoice'[inv_id].payments =
                       <<[method |-> FallbackMethod(body), amount |-> due, reference |-> NoneStr]>>
            ELSE /\ response'.code = InvalidInput
                 /\ UNCHANGED db
      ]_vars

(***************************************************************************)
(* Paying a paid invoice (claim C22).                                      *)
(***************************************************************************)
\* C22: pay_invoice does not look at the invoice's status: a valid payment
\* of a "parts" invoice that is already "paid" succeeds again, decreases the
\* stock of every referenced part by the line's quantity once more and
\* appends one more "out" movement per such line; and an invoice that is
\* "paid" stays "paid" through every operation.
C22_PaidInvoicePaidAgain ==
    [][ /\ \A inv_id \in 1..Len(invoice) :
             ( /\ response'.op = "pay_invoice"
               /\ invoice[inv_id].status = "paid"
               /\ invoice[inv_id].source = "parts"
               /\ pay_invoice(inv_id, LegacyPay) ) =>
                LET lines == RefLines(invoice[inv_id].items)
                    n == Len(inventorymovement) IN
                /\ response'.code = OK
                /\ Len(part') = Len(part)
                /\ \A k \in 1..Len(part) : part'[k].stock = part[k].stock - Sold(lines, k, 1)
                /\ Len(inventorymovement') = n + Len(lines)
                /\ SubSeq(inventorymovement', 1, n) = inventorymovement
                /\ \A i \in 1..Len(lines) :
                      /\ inventorymovement'[n + i].movement_type = "out"
                      /\ inventorymovement'[n + i].part_id = lines[i].ref_id
                      /\ inventorymovement'[n + i].quantity = lines[i].quantity
                      /\ inventorymovement'[n + i].reference = inv_id
        /\ \A i \in 1..Len(invoice) :
             invoice[i].status = "paid" =>
                Len(invoice') >= i /\ invoice'[i].status = "paid"
      ]_vars

\* A parts invoice of one unit of part 1 was paid twice: two "out" movements
\* refer to it and the stock of two is used up.
C22_Witness ==
    /\ response.op = "pay_invoice"
    /\ response.code = OK
    /\ \E v \in 1..Len(invoice) :
          /\ invoice[v].source = "parts"
          /\ invoice[v].status = "paid"
          /\ Len(invoice[v].payments) = 1
          /\ Cardinality({m \in 1..Len(inventorymovement) :
                            /\ inventorymovement[m].movement_type = "out"
                            /\ inventorymovement[m].reference = v
                            /\ inventorymovement[m].part_id = 1}) = 2
    /\ Len(inventorymovement) = 2
    /\ Len(part) = 1
    /\ part[1].stock = 0

(***************************************************************************)
(* Concurrent stock updates (claim C21).                                   *)
(***************************************************************************)
\* What the step of worker p adds to the stock of part k: the quantity of
\* its request when the step is its stock update, nothing otherwise.
StepDelta(p, k) ==
    LET a == proc[p].arg IN
    IF proc[p].pc = "adjust_update" /\ proc'[p].pc = "adjust_move"
    THEN IF a.part_id = k THEN a.adj.quantity ELSE 0
    ELSE IF proc[p].pc = "request_deduct" /\ proc'[p] # proc[p] /\ proc'[p].pc # "idle"
    THEN IF a.pr.items[proc[p].i].part_id = k THEN -a.pr.items[proc[p].i].quantity ELSE 0
    ELSE IF proc[p].pc = "pay_line" /\ proc'[p].pc = "pay_move"
    THEN IF a.inv.items[proc[p].i].ref_id = k THEN -a.inv.items[proc[p].i].quantity ELSE 0
    ELSE 0

RECURSIVE StepDeltas(_, _)
StepDeltas(p, k) == IF p > NumWorkers THEN 0 ELSE StepDelta(p, k) + StepDeltas(p + 1, k)

\* C21: under every interleaving of adjust_stock, update_parts_request to
\* "supplied" and pay_invoice of a parts invoice on the same part, each
\* stock update adds exactly its request's quantity to the stock the part
\* has at that moment and no other step changes it, so the stock is always
\* the initial stock plus the sum of the deltas applied: none is lost.
C21_NoLostUpdate ==
    [][ /\ Len(part') >= Len(part)
        /\ \A k \in 1..Len(part) : part'[k].stock = part[k].stock + StepDeltas(1, k) ]_vars

\* An adjustment of +2 and a sale of 1 are both half way, each having
\* written the stock of part 1, while the parts request was supplied: of the
\* initial 2 there are 2 + 2 - 1 - 1 = 2.
C21_Witness ==
    /\ \E p, q \in Workers : proc[p].pc = "adjust_move" /\ proc[q].pc = "pay_move"
    /\ Len(partsrequest) = 1
    /\ partsrequest[1].status = "supplied"
    /\ Len(jobcard) = 1
    /\ jobcard[1].status = "in_progress"
    /\ inventorymovement = <<>>
    /\ Len(part) = 1
    /\ part[1].stock = 2

====
